---- MODULE Spec2Model ----
(***************************************************************************)
(* Verification model of the computer-use templates under                  *)
(* src/pkg/templates/python: the browser-pool context manager and the      *)
(* evaluation fan-out (eval-protocol), the Groq/Moondream LLM loop, the    *)
(* scripted Moondream step loop, the Gemini screenshot pruning, the        *)
(* navigation retry policy and the Yutori sampling loop.                   *)
(*                                                                         *)
(* Each template is an independent program.  One specification is given    *)
(* per template; the variables of the other templates stay at their idle   *)
(* values.                                                                 *)
(***************************************************************************)
EXTENDS Integers, Sequences, FiniteSets, TLC

VARIABLES
    \* ---- eval-protocol: run_evaluation.run_task / acquired_browser ----
    sem,            \* free permits of asyncio.Semaphore(pool_size)
    tpc,            \* per task: position inside run_task
    held,           \* per task: a pool browser is acquired and not yet released
    acquired,       \* per task: browser_pools.acquire returned a browser
    releaseCalls,   \* per task: reuse flags of the release calls made, in order
    heartbeat,      \* per task: adapter._heartbeat is not None
    hbStarted,      \* per task: start_heartbeat_sync was ever called
    shouldNotReuse, \* per task: adapter._should_not_reuse
    texit,          \* per task: how the with-block of acquired_browser was left
    tresult,        \* per task: what run_task handed to asyncio.gather
    poolEphemeral,  \* run_evaluation created the pool itself (no pool_name)
    poolCap,        \* size of the remote browser pool in use
    \* ---- eval-protocol: KernelBrowserAdapter.navigate / _run_single_rollout ----
    navCaller,      \* who runs the navigation: "navigate", "run_rollout", "run_task"
    navPc,          \* position inside KernelBrowserAdapter.navigate
    navMax,         \* max_retries
    navAttempt,     \* the loop variable attempt
    navOutcomes,    \* outcome of every playwright.execute call made, in order
    navSleeps,      \* every time.sleep(backoff) made, in milliseconds, in order
    navLastError,   \* last_error ("None" before the first failure)
    navRaisedMsg,   \* the failure message inside the RuntimeError raised
    roPc,           \* position inside _run_single_rollout
    roMessages,     \* conversation state of the rollout's agent
    callerOutcome,  \* what the caller of the rollout gets
    \* ---- moondream-groq-computer-use: run_llm_agent ----
    llmPc,          \* position inside run_llm_agent
    llmIter,        \* iteration
    llmMaxIter,     \* options.max_iterations
    llmMessages,    \* messages, by kind of message: the ones appended
                    \* since the latest iteration began (the loop only
                    \* appends to messages and hands them to the model)
    llmError,       \* error ("none" for None)
    llmLastPageUrl, \* last_page_url ("none" for None)
    llmDone,        \* done_flag
    llmFinal,       \* final_response, by class
    llmBatchLen,    \* len(actions) of the batch being executed
    llmIdx,         \* number of items of the batch already taken
    llmBroke,       \* the for loop over the batch was left early
    llmCalls,       \* Groq calls made in the current iteration
    llmParseFailed, \* _parse_json_action raised in the current iteration
    llmRejected,    \* class of the final_response the last iteration declared
                    \* done with and the concrete-value or JSON check
                    \* rejected ("none": no such rejection)
    llmReturnedFinal, \* final_response of the returned payload, by class
    llmDoneBy,      \* what set done_flag in the current batch: "none",
                    \* "payload" (done=true), "done_action", "fail_action"
    llmStopAt,      \* position in the batch of the last done, fail or
                    \* raising item dispatched (0: none was)
    llmStopKind,    \* the kind of that item ("none": none was)
    llmResults,     \* len(results): the results recorded for the batch
    llmLastDecl,    \* how the iteration that just ended stood at its
                    \* validation chain: who set done_flag, the
                    \* final_response, the corrective message appended
    \* ---- moondream-groq-computer-use: run_agent (scripted steps) ----
    raPc,           \* position inside run_agent
    raSteps,        \* parsed_steps, by kind of step
    raIdx,          \* index of the step being run (from 1)
    raStrict,       \* options.strict
    raAttempts,     \* attempts = max(1, retries) of _resolve_target_coords
    raScreen,       \* version of what the remote screen shows
    raLast,         \* last_screenshot: the version it shows, 0 for None
    raCalls,        \* the steps whose execute_action call was made, in order
    raResolutions,  \* the target resolutions made: step, version of the
                    \* screenshot used, version of the screen at that time
    raLogs,         \* logs: the status of every StepLog, in order
    raError,        \* error is not None
    \* ---- gemini-computer-use: sampling_loop / _prune_old_screenshots ----
    gemPc,          \* position: in the loop, at a direct call, done
    gemContents,    \* contents: the conversation history
    gemBefore,      \* contents as handed to the last _prune_old_screenshots
    gemPruned,      \* the last step called _prune_old_screenshots
    gemIter,        \* iteration
    gemMaxIter,     \* max_iterations
    gemFinal,       \* final_response, by class
    gemOutcome,     \* how the loop was left: "none" (running), "stopped"
                    \* (no function calls), "no_content", "exception",
                    \* "ceiling" (the while condition failed)
    \* ---- openai-computer-use: Agent.run_full_turn ----
    oaiPc,          \* position inside run_full_turn
    oaiCalls,       \* create_response calls made (saturating count)
    oaiOutput,      \* response["output"] of the latest response, by kind
    oaiIdx,         \* items of it already handled
    oaiLast,        \* new_items[-1]: "none" (empty), an item kind, or
                    \* "output" (an item returned by handle_item)
    oaiHandled,     \* what handle_item did for the items handled so far:
                    \* kind, remote calls made, output returned
    \* ---- the action executors (Gemini and Yutori ComputerTool) ----
    exTool,         \* whose executor runs: "gemini" or "yutori"
    exAction,       \* the action name
    exArgs,         \* the required arguments of the action are present
    exQueue,        \* the remote calls the action has still to make
    exPc,           \* position inside the executor
    exResult,       \* the ToolResult returned: image (screenshot) set,
                    \* error ("none": not set), output set
    exRemoteRaised, \* a remote browser-control call has raised
    exCaught,        \* _handle_read_texts_and_links is in its except branch
    exTrace,        \* the remote calls made, the delays slept ("sleep")
                    \* and the screenshots captured, in order
    \* ---- coordinate mapping of a click (Gemini and Yutori ComputerTool) ----
    mapTool,        \* whose click runs: "gemini" or "yutori"
    mapX,           \* the x the model gave, on the model's 0-1000 scale
    mapY,           \* the y the model gave
    mapPc,          \* "start", "called" (click_mouse was called), "failed"
    mapCall,         \* the <<x, y>> passed to click_mouse, <<>> before the call
    \* ---- eval-protocol KernelBrowserAdapter coordinate conversion ----
    rtAxis,         \* the axis converted: "x" or "y"
    rtPixel,        \* the pixel coordinate given to pixel_to_normalized
    rtNorm,         \* its normalized coordinate (0-999), -1 before the conversion
    rtBack,         \* normalized_to_pixel of rtNorm, -1 before the conversion
    rtPc,            \* "start", "normalized", "back"
    \* ---- moondream-groq-computer-use: _coerce_coords, normalize_point ----
    ceFn,           \* the function called: "coerce_coords" or "normalize_point"
    ceX,            \* the x given, counted in halves (1 is 0.5, 2 is 1.0)
    ceY,            \* the y given, counted in halves
    cePc,           \* "start", "done"
    ceOut,           \* the <<x, y>> returned, <<>> before the return
    \* ---- key-name normalizers (anthropic, yutori, eval-protocol) ----
    keyTool,        \* whose normalizer runs: "anthropic", "yutori" or "eval"
    keyIn,          \* the key given: its tokens in order (the parts between '+')
    keyOut,         \* the tokens of the string passed to press_key, <<>> before it
    keyPc,           \* "start", "pressed"
    \* ---- anthropic-computer-use: BaseComputerTool.__call__ ----
    anAction,       \* the action name
    anText,         \* text is given
    anCoordinate,   \* coordinate: "none", "ok", or "negative" (a negative int)
    anStart,        \* start_coordinate is given
    anPc,           \* "start", "screenshot", "returned", "raised"
    anTrace,         \* the remote calls and sleeps made so far, in order
    \* ---- KernelBrowserSession (gemini, anthropic, openai session.py) ----
    ksTemplate,     \* whose session.py: "gemini", "anthropic" or "openai"
    ksRecord,       \* record_replay
    ksPc,           \* position: "enter", "replay", "body", "stop", "poll",
    \* "delete", "exited", "read", "raised" (entry failed)
    ksSession,      \* session_id is set (a browser was created)
    ksReplayId,     \* replay_id is set
    ksKernel,       \* the kernel client is still held (_kernel is not None)
    ksBodyRaised,   \* the body of the with statement raised
    ksPending,      \* an exception is on its way out of __aexit__ / __exit__
    ksPolls,        \* the polls of replays.list made so far
    ksDeletes,      \* the calls of browsers.delete_by_id made so far
    ksRead,          \* what reading session.kernel after exit gave: "none",
    \* "client" or "raises"
    \* ---- entry points that create a browser session themselves ----
    epEntry,        \* "run_rollout" (eval-protocol), "run_agent"
    \* (claude-agent-sdk) or "test_local" (openai-computer-use)
    epScore,        \* run_rollout: payload score
    epKey,          \* OPENAI_API_KEY is set
    epPc,           \* "start", "setup", "run", "score", "cleanup", "returned",
    \* "raised"
    epCreated,      \* browsers.create returned a session
    epTurns,        \* the steps the agent has taken so far (run_agent_loop
                    \* steps, assistant messages, model calls of the turn)
    epOutcome,      \* how the agent run ended: "none", "returns", "fails",
                    \* "raises"
    epFailed,       \* an exception is on its way out of the entry point
    epDeletes,       \* the calls of browsers.delete_by_id made so far
    \* ---- yutori-computer-use: sampling_loop and its playwright connection ----
    ylMode,         \* mode: "computer_use" or "playwright"
    ylCdp,          \* cdp_ws_url is given
    ylMaxIter,      \* max_iterations
    ylPc,           \* "setup", "shot", "loop", "batch", "finally", "returned",
    \* "raised"
    ylIter,         \* iteration
    ylLeft,         \* the actions of the current response still to execute
    ylConnected,    \* playwright_tool.connect() has returned
    ylFailed,       \* an exception is on its way out of the loop
    ylExit,         \* the exit path taken: "none", "stop", "no_actions",
    \* "ceiling", "api_error", "screenshot"
    ylDisconnects,   \* the calls of playwright_tool.disconnect() made so far
    \* ---- anthropic-computer-use: ComputerTool20250124.__call__, the clicks ----
    mkAction,       \* "left_click", "right_click", "double_click",
    \* "triple_click" or "middle_click"
    mkKey,          \* key (a modifier to hold during the click) is given
    mkText,         \* text is given
    mkCoordinate,   \* coordinate: "none", "ok" or "invalid"
    mkPc,           \* "start", "down", "click", "up", "screenshot", "returned",
    \* "raised"
    mkTrace,         \* the remote calls issued so far, in order
    \* ---- moondream-groq-computer-use: _resolve_target_coords ----
    rsXY,           \* the step gives x and y
    rsTarget,       \* a target is given
    rsRetries,      \* retries
    rsLast,         \* last_screenshot holds a screenshot
    rsPc,           \* "start", "ensure", "point", "returned", "raised"
    rsAttempt,      \* attempt, from 0
    rsTrace,        \* what was done, in order: "reuse" (last_screenshot read),
    \* "capture" (computer.screenshot), "point_found",
    \* "point_none" (moondream.point), "sleep"
    rsResult,        \* "none" (not returned), "coords" or "None"
    \* ---- openai-computer-use: KernelComputer.batch_actions ----
    baActions,      \* actions, the list given by the model
    baPc,           \* "translate", "call", "returned", "raised"
    baTranslated,   \* translated, as far as the list comprehension has come
    baCalls,        \* the actions lists given to browsers.computer.batch
    baError,         \* "none", "ValueError", or "remote" (batch raised)
    \* ---- eval-protocol: KernelBrowserAdapter heartbeat, BrowserHeartbeat ----
    hbInterval,     \* adapter.heartbeat_interval > 0
    hbUrl,          \* adapter.cdp_ws_url is set
    hbHeartbeat,    \* adapter._heartbeat: 0 for None, else the BrowserHeartbeat
    hbCreated,      \* BrowserHeartbeat objects made so far
    hbCaller,       \* the caller thread: "idle", or "joining" inside stop_sync
    hbPc,           \* per BrowserHeartbeat, its thread: "none", "stagger",
                    \* "check", "connecting", "first_send", "first_recv",
                    \* "after", "backoff", "loop", "sleep", "woke", "send",
                    \* "recv", "done"
    hbAttempt,      \* per BrowserHeartbeat: attempt of the connect loop
    hbStopped,      \* per BrowserHeartbeat: _stopped is set
    hbStopDone,     \* per BrowserHeartbeat: stop_heartbeat_sync has returned
    hbLate          \* a command was sent by a heartbeat whose stop had returned

poolVars == <<sem, tpc, held, acquired, releaseCalls, heartbeat, hbStarted,
              shouldNotReuse, texit, tresult, poolEphemeral, poolCap>>

\* the pool run_evaluation works on; no step of run_task changes it
poolConf == <<poolEphemeral, poolCap>>

navVars == <<navCaller, navPc, navMax, navAttempt, navOutcomes, navSleeps,
             navLastError, navRaisedMsg, roPc, roMessages, callerOutcome>>

llmVars == <<llmPc, llmIter, llmMaxIter, llmMessages, llmError,
             llmLastPageUrl, llmDone, llmFinal, llmBatchLen, llmIdx, llmBroke,
             llmCalls, llmParseFailed, llmRejected, llmReturnedFinal,
             llmDoneBy, llmStopAt, llmStopKind, llmResults, llmLastDecl>>

raVars == <<raPc, raSteps, raIdx, raStrict, raAttempts, raScreen, raLast,
            raCalls, raResolutions, raLogs, raError>>

gemVars == <<gemPc, gemContents, gemBefore, gemPruned, gemIter, gemMaxIter,
             gemFinal, gemOutcome>>

oaiVars == <<oaiPc, oaiCalls, oaiOutput, oaiIdx, oaiLast, oaiHandled>>

exVars == <<exTool, exAction, exArgs, exQueue, exPc, exResult,
            exRemoteRaised, exCaught, exTrace>>

mapVars == <<mapTool, mapX, mapY, mapPc, mapCall>>

rtVars == <<rtAxis, rtPixel, rtNorm, rtBack, rtPc>>

ceVars == <<ceFn, ceX, ceY, cePc, ceOut>>

keyVars == <<keyTool, keyIn, keyOut, keyPc>>

anVars == <<anAction, anText, anCoordinate, anStart, anPc, anTrace>>

ksVars == <<ksTemplate, ksRecord, ksPc, ksSession, ksReplayId, ksKernel, ksBodyRaised, ksPending, ksPolls, ksDeletes, ksRead>>

epVars == <<epEntry, epScore, epKey, epPc, epCreated, epTurns, epOutcome, epFailed, epDeletes>>

ylVars == <<ylMode, ylCdp, ylMaxIter, ylPc, ylIter, ylLeft, ylConnected, ylFailed, ylExit, ylDisconnects>>

mkVars == <<mkAction, mkKey, mkText, mkCoordinate, mkPc, mkTrace>>

rsVars == <<rsXY, rsTarget, rsRetries, rsLast, rsPc, rsAttempt, rsTrace, rsResult>>

baVars == <<baActions, baPc, baTranslated, baCalls, baError>>

hbVars == <<hbInterval, hbUrl, hbHeartbeat, hbCreated, hbCaller, hbPc, hbAttempt, hbStopped, hbStopDone, hbLate>>

notPool == <<navVars, llmVars, raVars, gemVars, oaiVars, exVars, mapVars, rtVars, ceVars, keyVars, anVars, ksVars, epVars, ylVars, mkVars, rsVars, baVars, hbVars>>
notNav == <<poolVars, llmVars, raVars, gemVars, oaiVars, exVars, mapVars, rtVars, ceVars, keyVars, anVars, ksVars, epVars, ylVars, mkVars, rsVars, baVars, hbVars>>
notLlm == <<poolVars, navVars, raVars, gemVars, oaiVars, exVars, mapVars, rtVars, ceVars, keyVars, anVars, ksVars, epVars, ylVars, mkVars, rsVars, baVars, hbVars>>
notRa == <<poolVars, navVars, llmVars, gemVars, oaiVars, exVars, mapVars, rtVars, ceVars, keyVars, anVars, ksVars, epVars, ylVars, mkVars, rsVars, baVars, hbVars>>
notGem == <<poolVars, navVars, llmVars, raVars, oaiVars, exVars, mapVars, rtVars, ceVars, keyVars, anVars, ksVars, epVars, ylVars, mkVars, rsVars, baVars, hbVars>>
notOai == <<poolVars, navVars, llmVars, raVars, gemVars, exVars, mapVars, rtVars, ceVars, keyVars, anVars, ksVars, epVars, ylVars, mkVars, rsVars, baVars, hbVars>>
notEx == <<poolVars, navVars, llmVars, raVars, gemVars, oaiVars, mapVars, rtVars, ceVars, keyVars, anVars, ksVars, epVars, ylVars, mkVars, rsVars, baVars, hbVars>>
notMap == <<poolVars, navVars, llmVars, raVars, gemVars, oaiVars, exVars, rtVars, ceVars, keyVars, anVars, ksVars, epVars, ylVars, mkVars, rsVars, baVars, hbVars>>
notRt == <<poolVars, navVars, llmVars, raVars, gemVars, oaiVars, exVars, mapVars, ceVars, keyVars, anVars, ksVars, epVars, ylVars, mkVars, rsVars, baVars, hbVars>>
notCe == <<poolVars, navVars, llmVars, raVars, gemVars, oaiVars, exVars, mapVars, rtVars, keyVars, anVars, ksVars, epVars, ylVars, mkVars, rsVars, baVars, hbVars>>
notKey == <<poolVars, navVars, llmVars, raVars, gemVars, oaiVars, exVars, mapVars, rtVars, ceVars, anVars, ksVars, epVars, ylVars, mkVars, rsVars, baVars, hbVars>>
notAn == <<poolVars, navVars, llmVars, raVars, gemVars, oaiVars, exVars, mapVars, rtVars, ceVars, keyVars, ksVars, epVars, ylVars, mkVars, rsVars, baVars, hbVars>>
notKs == <<poolVars, navVars, llmVars, raVars, gemVars, oaiVars, exVars, mapVars, rtVars, ceVars, keyVars, anVars, epVars, ylVars, mkVars, rsVars, baVars, hbVars>>
notEp == <<poolVars, navVars, llmVars, raVars, gemVars, oaiVars, exVars, mapVars, rtVars, ceVars, keyVars, anVars, ksVars, ylVars, mkVars, rsVars, baVars, hbVars>>
notYl == <<poolVars, navVars, llmVars, raVars, gemVars, oaiVars, exVars, mapVars, rtVars, ceVars, keyVars, anVars, ksVars, epVars, mkVars, rsVars, baVars, hbVars>>
notMk == <<poolVars, navVars, llmVars, raVars, gemVars, oaiVars, exVars, mapVars, rtVars, ceVars, keyVars, anVars, ksVars, epVars, ylVars, rsVars, baVars, hbVars>>
notRs == <<poolVars, navVars, llmVars, raVars, gemVars, oaiVars, exVars, mapVars, rtVars, ceVars, keyVars, anVars, ksVars, epVars, ylVars, mkVars, baVars, hbVars>>
notBa == <<poolVars, navVars, llmVars, raVars, gemVars, oaiVars, exVars, mapVars, rtVars, ceVars, keyVars, anVars, ksVars, epVars, ylVars, mkVars, rsVars, hbVars>>
notHb == <<poolVars, navVars, llmVars, raVars, gemVars, oaiVars, exVars, mapVars, rtVars, ceVars, keyVars, anVars, ksVars, epVars, ylVars, mkVars, rsVars, baVars>>

\* ------------------------------------------------------------------ bounds
NumTasks == 2
PoolSize == 1
MaxRetriesBound == 4
MaxIterBound == 2
MaxBatch == 2
MaxSteps == 3
MaxAttempts == 2
MaxHistory == 5
MaxGemIter == 4
MaxOutput == 2
MaxTurnCalls == 3
MaxOver == 1
MaxHalves == 3
MaxKeys == 2
MaxPolls == 2
MaxTurns == 3
MaxYutoriIter == 2
MaxHeartbeats == 2

Tasks == 1..NumTasks

(***************************************************************************)
(* eval-protocol: acquired_browser and run_task                            *)
(***************************************************************************)
IdlePool ==
    /\ sem = 0
    /\ tpc = [t \in Tasks |-> "off"]
    /\ held = [t \in Tasks |-> FALSE]
    /\ acquired = [t \in Tasks |-> FALSE]
    /\ releaseCalls = [t \in Tasks |-> <<>>]
    /\ heartbeat = [t \in Tasks |-> FALSE]
    /\ hbStarted = [t \in Tasks |-> FALSE]
    /\ shouldNotReuse = [t \in Tasks |-> FALSE]
    /\ texit = [t \in Tasks |-> "none"]
    /\ tresult = [t \in Tasks |-> "none"]
    /\ poolEphemeral = FALSE
    /\ poolCap = 0

\* The sizes an existing pool (pool_name given) may have.
ExistingPoolSizes == 1..(PoolSize + 1)

\* run_evaluation: without pool_name an ephemeral pool of pool_size
\* browsers is created, with pool_name the existing pool is used as it is;
\* semaphore = asyncio.Semaphore(pool_size); every task is a run_task
\* coroutine waiting at "async with semaphore".
InitPool ==
    /\ sem = PoolSize
    /\ tpc = [t \in Tasks |-> "wait_sem"]
    /\ held = [t \in Tasks |-> FALSE]
    /\ acquired = [t \in Tasks |-> FALSE]
    /\ releaseCalls = [t \in Tasks |-> <<>>]
    /\ heartbeat = [t \in Tasks |-> FALSE]
    /\ hbStarted = [t \in Tasks |-> FALSE]
    /\ shouldNotReuse = [t \in Tasks |-> FALSE]
    /\ texit = [t \in Tasks |-> "none"]
    /\ tresult = [t \in Tasks |-> "none"]
    /\ poolEphemeral \in BOOLEAN
    /\ poolCap \in (IF poolEphemeral THEN {PoolSize} ELSE ExistingPoolSizes)

\* async with semaphore: (entry)
SemAcquire(t) ==
    /\ tpc[t] = "wait_sem"
    /\ sem > 0
    /\ sem' = sem - 1
    /\ tpc' = [tpc EXCEPT ![t] = "acquire"]
    /\ UNCHANGED <<held, acquired, releaseCalls, heartbeat, hbStarted,
                   shouldNotReuse, texit, tresult>>
    /\ UNCHANGED poolConf
    /\ UNCHANGED notPool

\* acquired_browser: browser = kernel.browser_pools.acquire(...); the pool
\* hands out a browser while it has one that is not checked out
PoolAcquireOk(t) ==
    /\ tpc[t] = "acquire"
    /\ Cardinality({u \in Tasks : held[u]}) < poolCap
    /\ held' = [held EXCEPT ![t] = TRUE]
    /\ acquired' = [acquired EXCEPT ![t] = TRUE]
    /\ tpc' = [tpc EXCEPT ![t] = "init"]
    /\ UNCHANGED <<sem, releaseCalls, heartbeat, hbStarted, shouldNotReuse,
                   texit, tresult>>
    /\ UNCHANGED poolConf
    /\ UNCHANGED notPool

\* acquired_browser: the acquire call raises (e.g. acquire timeout); nothing
\* was acquired, the exception reaches run_task's handler.
PoolAcquireRaises(t) ==
    /\ tpc[t] = "acquire"
    /\ texit' = [texit EXCEPT ![t] = "acquire_error"]
    /\ tpc' = [tpc EXCEPT ![t] = "except"]
    /\ UNCHANGED <<sem, held, acquired, releaseCalls, heartbeat, hbStarted,
                   shouldNotReuse, tresult>>
    /\ UNCHANGED poolConf
    /\ UNCHANGED notPool

\* KernelBrowserAdapter.__init__ with reset_on_init=True; reset_browser gets
\* a result: success, or not success (which sets _should_not_reuse).
AdapterInit(t, resetOk) ==
    /\ tpc[t] = "init"
    /\ shouldNotReuse' = [shouldNotReuse EXCEPT ![t] = ~resetOk]
    /\ tpc' = [tpc EXCEPT ![t] = "body"]
    /\ UNCHANGED <<sem, held, acquired, releaseCalls, heartbeat, hbStarted,
                   texit, tresult>>
    /\ UNCHANGED poolConf
    /\ UNCHANGED notPool

\* KernelBrowserAdapter.__init__: playwright.execute raises inside
\* reset_browser.  The constructor call sits before the try of
\* acquired_browser, so neither the except nor the else branch runs.
AdapterInitRaises(t) ==
    /\ tpc[t] = "init"
    /\ texit' = [texit EXCEPT ![t] = "init_error"]
    /\ tpc' = [tpc EXCEPT ![t] = "except"]
    /\ UNCHANGED <<sem, held, acquired, releaseCalls, heartbeat, hbStarted,
                   shouldNotReuse, tresult>>
    /\ UNCHANGED poolConf
    /\ UNCHANGED notPool

\* KernelBrowserAdapter.start_heartbeat_sync, called by the rollout while
\* the browser is held: idempotent while a heartbeat exists.
StartHeartbeat(t) ==
    /\ tpc[t] = "body"
    /\ ~heartbeat[t]
    /\ heartbeat' = [heartbeat EXCEPT ![t] = TRUE]
    /\ hbStarted' = [hbStarted EXCEPT ![t] = TRUE]
    /\ UNCHANGED <<sem, tpc, held, acquired, releaseCalls, shouldNotReuse,
                   texit, tresult>>
    /\ UNCHANGED poolConf
    /\ UNCHANGED notPool

\* The reuse flag of the release in the except branch of acquired_browser.
ReuseOnException_AsElse(t) == ~shouldNotReuse[t]
ReuseOnException(t) == FALSE

\* The reuse flag of the release in the else branch of acquired_browser.
ReuseOnReturn_Always(t) == TRUE
ReuseOnReturn(t) == ~shouldNotReuse[t]

\* KernelBrowserAdapter.stop_heartbeat_sync
StopHeartbeatSync(t) == [heartbeat EXCEPT ![t] = FALSE]

\* acquired_browser, else branch: the body returned.
BodyReturns(t) ==
    /\ tpc[t] = "body"
    /\ heartbeat' = StopHeartbeatSync(t)
    /\ releaseCalls' = [releaseCalls EXCEPT ![t] = Append(@, ReuseOnReturn(t))]
    /\ held' = [held EXCEPT ![t] = FALSE]
    /\ texit' = [texit EXCEPT ![t] = "return"]
    /\ tpc' = [tpc EXCEPT ![t] = "score"]
    /\ UNCHANGED <<sem, acquired, hbStarted, shouldNotReuse, tresult>>
    /\ UNCHANGED poolConf
    /\ UNCHANGED notPool

\* acquired_browser, except Exception branch: stop heartbeat, release with
\* reuse=False, re-raise (the exception then reaches run_task's handler).
BodyRaises(t) ==
    /\ tpc[t] = "body"
    /\ heartbeat' = StopHeartbeatSync(t)
    /\ releaseCalls' = [releaseCalls EXCEPT ![t] = Append(@, ReuseOnException(t))]
    /\ held' = [held EXCEPT ![t] = FALSE]
    /\ texit' = [texit EXCEPT ![t] = "exception"]
    /\ tpc' = [tpc EXCEPT ![t] = "except"]
    /\ UNCHANGED <<sem, acquired, hbStarted, shouldNotReuse, tresult>>
    /\ UNCHANGED poolConf
    /\ UNCHANGED notPool

\* The rollout is cancelled at its await (asyncio.CancelledError, a
\* BaseException): "except Exception" does not match and the else branch is
\* skipped, so the generator is left without any cleanup.
BodyCancelled(t) ==
    /\ tpc[t] = "body"
    /\ texit' = [texit EXCEPT ![t] = "cancelled"]
    /\ tpc' = [tpc EXCEPT ![t] = "cancelled"]
    /\ UNCHANGED <<sem, held, acquired, releaseCalls, heartbeat, hbStarted,
                   shouldNotReuse, tresult>>
    /\ UNCHANGED poolConf
    /\ UNCHANGED notPool

\* run_task after the with-block: WebJudge scoring, then the result dict;
\* a scoring exception goes to the handler.
ScoreTask(t, ok) ==
    /\ tpc[t] = "score"
    /\ tpc' = [tpc EXCEPT ![t] = IF ok THEN "leave" ELSE "except"]
    /\ tresult' = [tresult EXCEPT ![t] = IF ok THEN "scored" ELSE @]
    /\ UNCHANGED <<sem, held, acquired, releaseCalls, heartbeat, hbStarted,
                   shouldNotReuse, texit>>
    /\ UNCHANGED poolConf
    /\ UNCHANGED notPool

\* run_task: except Exception as e -> the error result dict.
TaskExcept(t) ==
    /\ tpc[t] = "except"
    /\ tresult' = [tresult EXCEPT ![t] = "error"]
    /\ tpc' = [tpc EXCEPT ![t] = "leave"]
    /\ UNCHANGED <<sem, held, acquired, releaseCalls, heartbeat, hbStarted,
                   shouldNotReuse, texit>>
    /\ UNCHANGED poolConf
    /\ UNCHANGED notPool

\* async with semaphore: (exit), on return and on a propagating
\* CancelledError alike.
SemRelease(t) ==
    /\ tpc[t] \in {"leave", "cancelled"}
    /\ sem' = sem + 1
    /\ tresult' = [tresult EXCEPT ![t] = IF tpc[t] = "cancelled" THEN "cancelled" ELSE @]
    /\ tpc' = [tpc EXCEPT ![t] = "done"]
    /\ UNCHANGED <<held, acquired, releaseCalls, heartbeat, hbStarted,
                   shouldNotReuse, texit>>
    /\ UNCHANGED poolConf
    /\ UNCHANGED notPool

NextPool ==
    \/ \E t \in Tasks : SemAcquire(t)
    \/ \E t \in Tasks : PoolAcquireOk(t)
    \/ \E t \in Tasks : PoolAcquireRaises(t)
    \/ \E t \in Tasks, resetOk \in BOOLEAN : AdapterInit(t, resetOk)
    \/ \E t \in Tasks : AdapterInitRaises(t)
    \/ \E t \in Tasks : StartHeartbeat(t)
    \/ \E t \in Tasks : BodyReturns(t)
    \/ \E t \in Tasks : BodyRaises(t)
    \/ \E t \in Tasks : BodyCancelled(t)
    \/ \E t \in Tasks, ok \in BOOLEAN : ScoreTask(t, ok)
    \/ \E t \in Tasks : TaskExcept(t)
    \/ \E t \in Tasks : SemRelease(t)

(***************************************************************************)
(* eval-protocol: KernelBrowserAdapter.navigate and _run_single_rollout    *)
(***************************************************************************)
\* navigate(url, max_retries=3): the default of max_retries
DefaultMaxRetries == 3

\* the base of the backoff, 0.5 s, in milliseconds
BaseBackoffMs == 500

\* result.error of a failed playwright.execute
ErrMsgs == {"err_a", "err_b"}

IdleNav ==
    /\ navCaller = "off"
    /\ navPc = "off"
    /\ navMax = 0
    /\ navAttempt = 0
    /\ navOutcomes = <<>>
    /\ navSleeps = <<>>
    /\ navLastError = "None"
    /\ navRaisedMsg = "none"
    /\ roPc = "off"
    /\ roMessages = <<>>
    /\ callerOutcome = "none"

\* navigate is entered either directly with any max_retries, or from
\* _run_single_rollout (adapter.navigate(initial_url), default max_retries)
\* run by run_rollout or by run_evaluation.run_task.
InitNav ==
    /\ navCaller \in {"navigate", "run_rollout", "run_task"}
    /\ navMax \in 1..MaxRetriesBound
    /\ (navCaller # "navigate" => navMax = DefaultMaxRetries)
    /\ navPc = "baseline"
    /\ navAttempt = 0
    /\ navOutcomes = <<>>
    /\ navSleeps = <<>>
    /\ navLastError = "None"
    /\ navRaisedMsg = "none"
    /\ roPc = IF navCaller = "navigate" THEN "off" ELSE "navigate"
    /\ roMessages = <<>>
    /\ callerOutcome = "none"

\* backoff = 0.5 * (2**attempt), in milliseconds
Backoff_NoDoubling(attempt) == BaseBackoffMs
Backoff(attempt) == BaseBackoffMs * (2 ^ attempt)

\* if attempt < max_retries - 1: the guard of the sleep
SleepsAfter_EveryFailure(attempt) == attempt < navMax
SleepsAfter(attempt) == attempt < navMax - 1

\* navigate: baseline = self.capture_screenshot(); the capture may raise.
NavBaseline(ok) ==
    /\ navPc = "baseline"
    /\ navPc' = IF ok THEN "attempt" ELSE "sdk_error"
    /\ UNCHANGED <<navCaller, navMax, navAttempt, navOutcomes, navSleeps,
                   navLastError, navRaisedMsg, roPc, roMessages, callerOutcome>>
    /\ UNCHANGED notNav

\* navigate, one loop iteration whose result.success is true: return
\* wait_for_screen_settle(baseline) (whose screenshot captures may raise).
NavAttemptSucceeds(settleOk) ==
    /\ navPc = "attempt"
    /\ navOutcomes' = Append(navOutcomes, "ok")
    /\ navPc' = IF settleOk THEN "returned" ELSE "sdk_error"
    /\ UNCHANGED <<navCaller, navMax, navAttempt, navSleeps, navLastError,
                   navRaisedMsg, roPc, roMessages, callerOutcome>>
    /\ UNCHANGED notNav

\* navigate, one loop iteration whose result.success is false: record
\* last_error, sleep the backoff unless this was the last attempt; after the
\* last attempt the loop ends and RuntimeError(... last_error) is raised.
NavAttemptFails(e) ==
    /\ navPc = "attempt"
    /\ navOutcomes' = Append(navOutcomes, e)
    /\ navLastError' = e
    /\ navSleeps' = IF SleepsAfter(navAttempt)
                    THEN Append(navSleeps, Backoff(navAttempt))
                    ELSE navSleeps
    /\ IF navAttempt + 1 < navMax
       THEN /\ navAttempt' = navAttempt + 1
            /\ UNCHANGED <<navPc, navRaisedMsg>>
       ELSE /\ navPc' = "raised"
            /\ navRaisedMsg' = navLastError'
            /\ UNCHANGED navAttempt
    /\ UNCHANGED <<navCaller, navMax, roPc, roMessages, callerOutcome>>
    /\ UNCHANGED notNav

\* navigate: the playwright.execute call itself raises; nothing in navigate
\* catches it.
NavExecuteRaises ==
    /\ navPc = "attempt"
    /\ navOutcomes' = Append(navOutcomes, "raise")
    /\ navPc' = "sdk_error"
    /\ UNCHANGED <<navCaller, navMax, navAttempt, navSleeps, navLastError,
                   navRaisedMsg, roPc, roMessages, callerOutcome>>
    /\ UNCHANGED notNav

\* _run_single_rollout: initial_screenshot = adapter.navigate(initial_url)
\* has ended; there is no try around it.
RolloutAfterNavigate ==
    /\ roPc = "navigate"
    /\ navPc \in {"returned", "raised", "sdk_error"}
    /\ roPc' = IF navPc = "returned" THEN "agent_loop" ELSE "raised"
    /\ UNCHANGED <<navCaller, navPc, navMax, navAttempt, navOutcomes, navSleeps,
                   navLastError, navRaisedMsg, roMessages, callerOutcome>>
    /\ UNCHANGED notNav

\* _run_single_rollout: agent = QwenAgent(...); await to_thread(run_agent_loop);
\* final_url = adapter.get_current_url(); return the dict.
RolloutAgentLoop(ok) ==
    /\ roPc = "agent_loop"
    /\ roMessages' = Append(roMessages, "task")
    /\ roPc' = IF ok THEN "returned" ELSE "raised"
    /\ UNCHANGED <<navCaller, navPc, navMax, navAttempt, navOutcomes, navSleeps,
                   navLastError, navRaisedMsg, callerOutcome>>
    /\ UNCHANGED notNav

\* run_rollout awaits _run_single_rollout without a try; run_task wraps it
\* in try/except Exception and returns an error dict.
CallerGetsOutcome ==
    /\ roPc \in {"returned", "raised"}
    /\ callerOutcome = "none"
    /\ callerOutcome' = IF roPc = "returned" THEN "result"
                        ELSE IF navCaller = "run_task" THEN "error_result"
                        ELSE "exception"
    /\ UNCHANGED <<navCaller, navPc, navMax, navAttempt, navOutcomes, navSleeps,
                   navLastError, navRaisedMsg, roPc, roMessages>>
    /\ UNCHANGED notNav

NextNav ==
    \/ \E ok \in BOOLEAN : NavBaseline(ok)
    \/ \E settleOk \in BOOLEAN : NavAttemptSucceeds(settleOk)
    \/ \E e \in ErrMsgs : NavAttemptFails(e)
    \/ NavExecuteRaises
    \/ RolloutAfterNavigate
    \/ \E ok \in BOOLEAN : RolloutAgentLoop(ok)
    \/ CallerGetsOutcome

(***************************************************************************)
(* moondream-groq-computer-use: run_llm_agent (llm_loop.py)                *)
(***************************************************************************)
\* LlmOptions.max_iterations, the default
DefaultMaxIterations == 40

\* Classes of final_response strings, by what the checks of the loop read:
\*   "empty"        the empty string
\*   "lbrace2"      plain text containing "{{"
\*   "rbrace2"      plain text containing "}}"
\*   "word"         plain text containing the word "placeholder"
\*   "badjson"      starts with "{", repair_json/json.loads give no dict
\*   "text"         plain text, none of the above
\*   "json"         a JSON object without a URL-named string field
\*   "json_url"     a JSON object with a URL-named field holding "u1"
\*   "json_urls"    a JSON object with two URL-named fields, holding "u1"
\*                  and "u2"
FinalKinds == {"empty", "lbrace2", "rbrace2", "word", "badjson", "text",
               "json", "json_url", "json_urls"}

\* Kinds of batch items, by the branch of the dispatch they take.
ActionKinds == {"exec", "page_info", "bad", "noop", "done", "fail"}

PageUrls == {"u1", "u2"}

\* if done_flag and (not final_response or "{{" in final_response
\*                   or "}}" in final_response or "placeholder" in ...lower())
FailsConcreteCheck_NoCloseBraces(k) == k \in {"empty", "lbrace2", "word"}
FailsConcreteCheck(k) == k \in {"empty", "lbrace2", "rbrace2", "word"}

\* stripped.startswith("{") and repair_json/json.loads do not give a dict
FailsJsonCheck(k) == k = "badjson"

\* _extract_urls(final_response)
ExtractUrls(k) ==
    CASE k = "json_url" -> {"u1"}
      [] k = "json_urls" -> {"u1", "u2"}
      [] OTHER -> {}

\* the URL gate: urls and (not last_page_url or any(url != last_page_url))
FailsUrlCheck_AllDiffer(k, lastUrl) ==
    /\ ExtractUrls(k) # {}
    /\ \/ lastUrl = "none"
       \/ \A u \in ExtractUrls(k) : u # lastUrl
FailsUrlCheck(k, lastUrl) ==
    /\ ExtractUrls(k) # {}
    /\ \/ lastUrl = "none"
       \/ \E u \in ExtractUrls(k) : u # lastUrl

\* The corrective message the validation chain appends for final_response
\* class k, or "none" when the response is accepted.
Corrective(k, lastUrl) ==
    IF FailsConcreteCheck(k) THEN "corrective_final"
    ELSE IF FailsJsonCheck(k) THEN "corrective_json"
    ELSE IF FailsUrlCheck(k, lastUrl)
         THEN (IF lastUrl = "none" THEN "corrective_no_page_info"
                                   ELSE "corrective_url_mismatch")
    ELSE "none"

\* no iteration has ended yet
NoDecl == [by |-> "none", final |-> "empty", corrective |-> "none"]

\* the items that leave the for loop over the batch: break, or a raise
\* caught by the except around the loop
BreaksBatch_NotOnDone(kind) == kind \in {"bad", "fail"}
BreaksBatch(kind) == kind \in {"bad", "done", "fail"}

IdleLlm ==
    /\ llmPc = "off"
    /\ llmIter = 0
    /\ llmMaxIter = 0
    /\ llmMessages = <<>>
    /\ llmError = "none"
    /\ llmLastPageUrl = "none"
    /\ llmDone = FALSE
    /\ llmFinal = "empty"
    /\ llmBatchLen = 0
    /\ llmIdx = 0
    /\ llmBroke = FALSE
    /\ llmCalls = 0
    /\ llmParseFailed = FALSE
    /\ llmRejected = "none"
    /\ llmReturnedFinal = "none"
    /\ llmDoneBy = "none"
    /\ llmStopAt = 0
    /\ llmStopKind = "none"
    /\ llmResults = 0
    /\ llmLastDecl = NoDecl

\* run_llm_agent up to the for loop: messages = [system, user task];
\* iteration = 1.
InitLlm ==
    /\ llmPc = "call"
    /\ llmIter = 1
    /\ llmMaxIter \in 1..MaxIterBound
    /\ llmMessages = <<"system", "task">>
    /\ llmError = "none"
    /\ llmLastPageUrl = "none"
    /\ llmDone = FALSE
    /\ llmFinal = "empty"
    /\ llmBatchLen = 0
    /\ llmIdx = 0
    /\ llmBroke = FALSE
    /\ llmCalls = 0
    /\ llmParseFailed = FALSE
    /\ llmRejected = "none"
    /\ llmReturnedFinal = "none"
    /\ llmDoneBy = "none"
    /\ llmStopAt = 0
    /\ llmStopKind = "none"
    /\ llmResults = 0
    /\ llmLastDecl = NoDecl

\* The head of one iteration: the Groq call with its one retry, then
\* _parse_json_action(raw), which no try surrounds.
\*   api      "ok": the first call returns; "exc_ok": the first call raises,
\*            the retry returns; "exc_exc": both raise (raw = '{"actions":[]}')
\*   parses   _parse_json_action finds and decodes a JSON object in raw
\*   done, k  batch_payload.get("done") and the class of its final_response
\*   n        the number of items _normalize_actions gives
LlmModelCall(api, parses, done, k, n) ==
    /\ llmPc = "call"
    /\ (api = "exc_exc" => (parses /\ ~done /\ n = 0))
    /\ (~parses => (~done /\ n = 0))
    /\ (~done => k = "empty")
    /\ llmCalls' = IF api = "ok" THEN 1 ELSE 2
    /\ llmError' = IF api = "exc_exc" THEN "api" ELSE llmError
    /\ llmParseFailed' = ~parses
    /\ llmRejected' = "none"
    /\ LET afterRetry == IF api = "ok" THEN <<>>
                         ELSE <<"corrective_invalid">>
       IN IF parses
          THEN /\ llmMessages' = Append(afterRetry, "assistant")
               /\ llmPc' = "batch"
               /\ llmDone' = done
               /\ llmFinal' = k
               /\ llmBatchLen' = n
               /\ llmIdx' = 0
               /\ llmBroke' = FALSE
               /\ llmDoneBy' = IF done THEN "payload" ELSE "none"
               /\ llmStopAt' = 0
               /\ llmStopKind' = "none"
               /\ llmResults' = 0
          ELSE /\ llmMessages' = afterRetry
               /\ llmPc' = "raised"
               /\ UNCHANGED <<llmDone, llmFinal, llmBatchLen, llmIdx, llmBroke,
                              llmDoneBy, llmStopAt, llmStopKind, llmResults>>
    /\ llmLastDecl' = NoDecl
    /\ UNCHANGED <<llmIter, llmMaxIter, llmLastPageUrl, llmReturnedFinal>>
    /\ UNCHANGED notLlm

\* One item of the batch, in list order.  The kind of an item is drawn when
\* the loop reaches it, so every batch of at most MaxBatch items is a path.
\*   "exec"       a kernel_tool action (navigate, click_at, ...): a result
\*   "page_info"  _page_info: url is the page URL, or "none" on an error
\*   "noop"       an item without action name, or with rejected
\*                coordinates: a failed result and continue
\*   "bad"        an unknown action or a missing required argument: the
\*                ValueError ends the for loop in the except branch
\*   "done"       done_flag = True, final_response = args.final_response
\*   "fail"       error = args.error, done_flag = True, break
LlmAction(kind, url, k) ==
    /\ llmPc = "batch"
    /\ ~llmBroke
    /\ llmIdx < llmBatchLen
    /\ llmIdx' = llmIdx + 1
    /\ (kind # "page_info" => url = "none")
    /\ (kind # "done" => k = "empty")
    /\ llmLastPageUrl' = IF kind = "page_info" /\ url # "none" THEN url
                         ELSE llmLastPageUrl
    /\ llmBroke' = BreaksBatch(kind)
    /\ llmResults' = IF kind = "done" THEN llmResults ELSE llmResults + 1
    /\ llmStopAt' = IF kind \in {"bad", "done", "fail"} THEN llmIdx + 1
                    ELSE llmStopAt
    /\ llmStopKind' = IF kind \in {"bad", "done", "fail"} THEN kind
                      ELSE llmStopKind
    /\ llmDoneBy' = IF kind = "done" THEN "done_action"
                    ELSE IF kind = "fail" /\ ~llmDone THEN "fail_action"
                    ELSE llmDoneBy
    /\ llmDone' = IF kind \in {"done", "fail"} THEN TRUE ELSE llmDone
    /\ llmFinal' = IF kind = "done" THEN k ELSE llmFinal
    /\ llmError' = IF kind = "bad" THEN "batch"
                   ELSE IF kind = "fail" THEN "fail"
                   ELSE llmError
    /\ UNCHANGED <<llmPc, llmIter, llmMaxIter, llmMessages, llmBatchLen,
                   llmCalls, llmParseFailed, llmRejected, llmReturnedFinal,
                   llmLastDecl>>
    /\ UNCHANGED notLlm

\* The tail of one iteration: _append_result, the validation chain of
\* final_response, the return when done_flag survives, else the next
\* iteration; after max_iterations iterations the return with
\* final_response "".
LlmEndBatch ==
    /\ llmPc = "batch"
    /\ (llmBroke \/ llmIdx = llmBatchLen)
    /\ LET c == IF llmDone THEN Corrective(llmFinal, llmLastPageUrl) ELSE "none"
           withResult == Append(llmMessages, "batch_result")
       IN /\ llmMessages' = IF c = "none" THEN withResult ELSE Append(withResult, c)
          /\ llmRejected' = IF c \in {"corrective_final", "corrective_json"}
                             THEN llmFinal ELSE "none"
          /\ llmLastDecl' = [by |-> IF llmDone THEN llmDoneBy ELSE "none",
                             final |-> llmFinal, corrective |-> c]
          /\ IF llmDone /\ c = "none"
             THEN /\ llmPc' = "returned"
                  /\ llmReturnedFinal' = llmFinal
                  /\ UNCHANGED llmIter
             ELSE IF llmIter < llmMaxIter
             THEN /\ llmPc' = "call"
                  /\ llmIter' = llmIter + 1
                  /\ UNCHANGED llmReturnedFinal
             ELSE /\ llmPc' = "returned"
                  /\ llmReturnedFinal' = "empty"
                  /\ UNCHANGED llmIter
    /\ llmDone' = FALSE
    /\ llmFinal' = "empty"
    /\ UNCHANGED <<llmMaxIter, llmError, llmLastPageUrl, llmBatchLen, llmIdx,
                   llmBroke, llmCalls, llmParseFailed, llmDoneBy, llmStopAt,
                   llmStopKind, llmResults>>
    /\ UNCHANGED notLlm

NextLlm ==
    \/ \E api \in {"ok", "exc_ok", "exc_exc"}, parses \in BOOLEAN,
          done \in BOOLEAN, k \in FinalKinds, n \in 0..MaxBatch :
              LlmModelCall(api, parses, done, k, n)
    \/ \E kind \in ActionKinds, url \in PageUrls \cup {"none"}, k \in FinalKinds :
          LlmAction(kind, url, k)
    \/ LlmEndBatch

(***************************************************************************)
(* moondream-groq-computer-use: run_agent (loop.py), the scripted steps    *)
(***************************************************************************)
\* Kinds of steps, by the branch of the dispatch they take:
\*   "navigate"  a step that only calls computer.execute_action (navigate,
\*               open, go_back, go_forward, search, key, scroll)
\*   "click"     click/type with a target and no x, y: the target is
\*               resolved by moondream.point on a screenshot
\*   "click_xy"  click/type with explicit x and y
\*   "query"     query/caption: moondream on the ensured screenshot
\*   "wait"      asyncio.sleep
\*   "unknown"   an unknown action or a missing required argument (raises)
\*   "type_no_text"  type with a target, no x, y and no text: the text is
\*               looked at after the target has been resolved
\*   "missing"   a step with no action
StepKinds == {"navigate", "click", "click_xy", "query", "wait", "unknown",
              "type_no_text", "missing"}

StepLists == UNION {[1..n -> StepKinds] : n \in 1..MaxSteps}

\* What ComputerTool.execute_action can give back: the remote calls took
\* effect on the screen or not, and the result carries base64_image (the
\* screenshot taken after the action) or an error instead.
ExecOutcomes == [effect : BOOLEAN, image : BOOLEAN]

IdleRa ==
    /\ raPc = "off"
    /\ raSteps = <<>>
    /\ raIdx = 0
    /\ raStrict = FALSE
    /\ raAttempts = 0
    /\ raScreen = 0
    /\ raLast = 0
    /\ raCalls = <<>>
    /\ raResolutions = <<>>
    /\ raLogs = <<>>
    /\ raError = FALSE

\* run_agent up to the for loop: last_screenshot = None, error = None.
\* The screen shows version 1; versions count the changes of the screen.
InitRa ==
    /\ raPc = "step"
    /\ raSteps \in StepLists
    /\ raIdx = 1
    /\ raStrict \in BOOLEAN
    /\ raAttempts \in 1..MaxAttempts
    /\ raScreen = 1
    /\ raLast = 0
    /\ raCalls = <<>>
    /\ raResolutions = <<>>
    /\ raLogs = <<>>
    /\ raError = FALSE

\* for index, step in enumerate(parsed_steps): the next position
RaAdvance == IF raIdx < Len(raSteps) THEN "step" ELSE "done"

\* _update_screenshot(result, last_screenshot)
UpdateScreenshot(image, shown) == IF image THEN shown ELSE raLast

\* _status(result)
Status(image) == IF image THEN "success" ELSE "failed"

\* the except branch of the step: log, error, break when strict
RaExcept ==
    /\ raLogs' = Append(raLogs, "failed")
    /\ raError' = TRUE
    /\ raPc' = IF raStrict THEN "done" ELSE RaAdvance
    /\ raIdx' = raIdx + 1

\* A step that only calls computer.execute_action, then
\* last_screenshot = _update_screenshot(result, last_screenshot).
RaStepExec(o) ==
    /\ raPc = "step"
    /\ raSteps[raIdx] \in {"navigate", "click_xy"}
    /\ LET shown == IF o.effect THEN raScreen + 1 ELSE raScreen
       IN /\ raScreen' = shown
          /\ raLast' = UpdateScreenshot(o.image, shown)
    /\ raCalls' = Append(raCalls, raIdx)
    /\ raLogs' = Append(raLogs, Status(o.image))
    /\ raPc' = RaAdvance
    /\ raIdx' = raIdx + 1
    /\ UNCHANGED <<raSteps, raStrict, raAttempts, raResolutions, raError>>
    /\ UNCHANGED notRa

\* click/type with a target: _resolve_target_coords finds the point at
\* attempt a (the first attempt reads last_screenshot when there is one,
\* every other attempt captures the screen), then CLICK_AT/TYPE_TEXT_AT is
\* executed and last_screenshot updated.
RaStepClickFound(a, o) ==
    /\ raPc = "step"
    /\ raSteps[raIdx] = "click"
    /\ a \in 1..raAttempts
    /\ LET used == IF a = 1 /\ raLast # 0 THEN raLast ELSE raScreen
           shown == IF o.effect THEN raScreen + 1 ELSE raScreen
       IN /\ raResolutions' = Append(raResolutions,
                 [step |-> raIdx, used |-> used, screen |-> raScreen,
                  captured |-> ~(a = 1 /\ raLast # 0)])
          /\ raScreen' = shown
          /\ raLast' = UpdateScreenshot(o.image, shown)
    /\ raCalls' = Append(raCalls, raIdx)
    /\ raLogs' = Append(raLogs, Status(o.image))
    /\ raPc' = RaAdvance
    /\ raIdx' = raIdx + 1
    /\ UNCHANGED <<raSteps, raStrict, raAttempts, raError>>
    /\ UNCHANGED notRa

\* click/type with a target that no attempt finds, or whose screenshot
\* capture or vision call raises: ValueError / RuntimeError in the step.
RaStepClickFails ==
    /\ raPc = "step"
    /\ raSteps[raIdx] \in {"click", "type_no_text"}
    /\ RaExcept
    /\ UNCHANGED <<raSteps, raStrict, raAttempts, raScreen, raLast, raCalls,
                   raResolutions>>
    /\ UNCHANGED notRa

\* type with a target and no text: _resolve_target_coords finds the point
\* at attempt a (capturing the screen unless attempt 1 reads
\* last_screenshot, and calling moondream.point), and only then
\* "type action requires text" is raised.
RaStepTypeNoText(a) ==
    /\ raPc = "step"
    /\ raSteps[raIdx] = "type_no_text"
    /\ a \in 1..raAttempts
    /\ raResolutions' = Append(raResolutions,
           [step |-> raIdx,
            used |-> IF a = 1 /\ raLast # 0 THEN raLast ELSE raScreen,
            screen |-> raScreen,
            captured |-> ~(a = 1 /\ raLast # 0)])
    /\ RaExcept
    /\ UNCHANGED <<raSteps, raStrict, raAttempts, raScreen, raLast, raCalls>>
    /\ UNCHANGED notRa

\* a step with no action: a failed StepLog; strict sets error and breaks,
\* otherwise continue (error is left as it was)
RaStepMissingAction ==
    /\ raPc = "step"
    /\ raSteps[raIdx] = "missing"
    /\ raLogs' = Append(raLogs, "failed")
    /\ IF raStrict
       THEN raError' = TRUE /\ raPc' = "done"
       ELSE UNCHANGED raError /\ raPc' = RaAdvance
    /\ raIdx' = raIdx + 1
    /\ UNCHANGED <<raSteps, raStrict, raAttempts, raScreen, raLast, raCalls,
                   raResolutions>>
    /\ UNCHANGED notRa

\* query/caption: screenshot = _ensure_screenshot(computer, last_screenshot);
\* last_screenshot = screenshot; the capture or the vision call may raise.
RaStepQuery(ok) ==
    /\ raPc = "step"
    /\ raSteps[raIdx] = "query"
    /\ IF ok
       THEN /\ raLast' = IF raLast # 0 THEN raLast ELSE raScreen
            /\ raLogs' = Append(raLogs, "success")
            /\ raPc' = RaAdvance
            /\ raIdx' = raIdx + 1
            /\ UNCHANGED raError
       ELSE /\ RaExcept
            /\ UNCHANGED raLast
    /\ UNCHANGED <<raSteps, raStrict, raAttempts, raScreen, raCalls,
                   raResolutions>>
    /\ UNCHANGED notRa

\* wait: asyncio.sleep(seconds)
RaStepWait ==
    /\ raPc = "step"
    /\ raSteps[raIdx] = "wait"
    /\ raLogs' = Append(raLogs, "success")
    /\ raPc' = RaAdvance
    /\ raIdx' = raIdx + 1
    /\ UNCHANGED <<raSteps, raStrict, raAttempts, raScreen, raLast, raCalls,
                   raResolutions, raError>>
    /\ UNCHANGED notRa

\* an unknown action or a missing required argument: ValueError
RaStepUnknown ==
    /\ raPc = "step"
    /\ raSteps[raIdx] = "unknown"
    /\ RaExcept
    /\ UNCHANGED <<raSteps, raStrict, raAttempts, raScreen, raLast, raCalls,
                   raResolutions>>
    /\ UNCHANGED notRa

NextRa ==
    \/ \E o \in ExecOutcomes : RaStepExec(o)
    \/ \E a \in 1..MaxAttempts, o \in ExecOutcomes : RaStepClickFound(a, o)
    \/ RaStepClickFails
    \/ \E ok \in BOOLEAN : RaStepQuery(ok)
    \/ RaStepWait
    \/ RaStepUnknown
    \/ \E a \in 1..MaxAttempts : RaStepTypeNoText(a)
    \/ RaStepMissingAction

(***************************************************************************)
(* gemini-computer-use: sampling_loop and _prune_old_screenshots (loop.py) *)
(***************************************************************************)
MAX_RECENT_TURN_WITH_SCREENSHOTS == 3

PredefinedNames == {"click_at", "navigate"}
CustomNames == {"custom_tool"}

\* _is_predefined_function(name)
IsPredefinedFunction(name) == name \in PredefinedNames

\* Part(text=...)
TextPart(t) ==
    [kind |-> "text", name |-> "none", response |-> t, image |-> FALSE]

\* Part(function_call=...)
CallPart(n) ==
    [kind |-> "function_call", name |-> n, response |-> "none",
     image |-> FALSE]

\* Part(function_response=FunctionResponse(name, response, parts)): image
\* says that parts holds the screenshot blob.
ResponsePart(n, r, img) ==
    [kind |-> "function_response", name |-> n, response |-> r, image |-> img]

\* What one function call gives in the loop: execute_action fails (unknown
\* names always do), or it succeeds and result.screenshot is there or empty;
\* the screenshot is attached for predefined functions only.
CallResults ==
    {ResponsePart(n, "error", FALSE) : n \in PredefinedNames \cup CustomNames}
    \cup {ResponsePart(n, "url", img) : n \in PredefinedNames, img \in BOOLEAN}

\* The function-response parts of one user turn, as the loop builds them
TurnShapes ==
    { <<ResponsePart("click_at", "url", TRUE)>>,
      <<ResponsePart("navigate", "url", FALSE)>>,
      <<ResponsePart("custom_tool", "error", FALSE)>>,
      <<ResponsePart("navigate", "url", TRUE),
        ResponsePart("click_at", "error", FALSE)>>,
      <<ResponsePart("custom_tool", "error", FALSE),
        ResponsePart("click_at", "url", TRUE)>> }

\* Content(role="user", parts=[Part(text=query)])
QueryMessage == [role |-> "user", parts |-> <<TextPart("query")>>]

\* candidate.content: reasoning text and one function_call per response
ModelMessage(names) ==
    [role |-> "model",
     parts |-> <<TextPart("reasoning")>> \o
               [k \in 1..Len(names) |-> CallPart(names[k])]]

\* Content(role="user", parts=function_responses)
UserTurn_WithoutErrors(shape) ==
    [role |-> "user",
     parts |-> SelectSeq(shape, LAMBDA p : p.response # "error")]
UserTurn(shape) == [role |-> "user", parts |-> shape]

CallNames(shape) == [k \in 1..Len(shape) |-> shape[k].name]

HistoryMessages ==
    {QueryMessage, ModelMessage(<<"click_at">>)}
    \cup {UserTurn(s) : s \in TurnShapes}

Histories == UNION {[1..n -> HistoryMessages] : n \in 0..MaxHistory}

\* has_screenshot of _prune_old_screenshots
HasScreenshot(m) ==
    \E k \in 1..Len(m.parts) :
        /\ m.parts[k].kind = "function_response"
        /\ IsPredefinedFunction(m.parts[k].name)
        /\ m.parts[k].image

\* part.function_response.parts = None
StripPart_DropsResponse(p) ==
    [p EXCEPT !.image = FALSE, !.response = "none"]
StripPart(p) == [p EXCEPT !.image = FALSE]

\* the inner for loop over the parts of an old turn
StripTurn(m) ==
    [m EXCEPT !.parts =
        [k \in 1..Len(m.parts) |->
            IF /\ m.parts[k].kind = "function_response"
               /\ IsPredefinedFunction(m.parts[k].name)
            THEN StripPart(m.parts[k])
            ELSE m.parts[k]]]

\* turns_with_screenshots > MAX_RECENT_TURN_WITH_SCREENSHOTS
OverLimit_Inclusive(n) == n >= MAX_RECENT_TURN_WITH_SCREENSHOTS
OverLimit(n) == n > MAX_RECENT_TURN_WITH_SCREENSHOTS

\* for content in reversed(contents): position i, turns_with_screenshots seen
RECURSIVE PruneFrom(_, _, _)
PruneFrom(c, i, seen) ==
    IF i = 0
    THEN c
    ELSE IF c[i].role # "user" \/ Len(c[i].parts) = 0
         THEN PruneFrom(c, i - 1, seen)
         ELSE IF HasScreenshot(c[i])
              THEN IF OverLimit(seen + 1)
                   THEN PruneFrom([c EXCEPT ![i] = StripTurn(c[i])],
                                  i - 1, seen + 1)
                   ELSE PruneFrom(c, i - 1, seen + 1)
              ELSE PruneFrom(c, i - 1, seen)

\* _prune_old_screenshots(contents)
PruneOldScreenshots_DropsOldTurn(c) ==
    LET p == PruneFrom(c, Len(c), 0) IN IF p = c THEN c ELSE Tail(p)
PruneOldScreenshots(c) == PruneFrom(c, Len(c), 0)

IdleGem ==
    /\ gemPc = "off"
    /\ gemContents = <<>>
    /\ gemBefore = <<>>
    /\ gemPruned = FALSE
    /\ gemIter = 0
    /\ gemMaxIter = 0
    /\ gemFinal = "none"
    /\ gemOutcome = "none"

\* Either sampling_loop up to its while loop, or a direct call of
\* _prune_old_screenshots on a history of messages.
InitGemLoop ==
    /\ gemBefore = <<>>
    /\ gemPruned = FALSE
    /\ gemIter = 0
    /\ gemFinal = "empty"
    /\ gemOutcome = "none"
    /\ gemPc = "loop"
    /\ gemContents = <<QueryMessage>>
    /\ gemMaxIter \in 1..MaxGemIter

InitGemCall ==
    /\ gemBefore = <<>>
    /\ gemPruned = FALSE
    /\ gemIter = 0
    /\ gemFinal = "empty"
    /\ gemOutcome = "none"
    /\ gemPc = "call"
    /\ gemContents \in Histories
    /\ gemMaxIter = 0

InitGem == InitGemLoop \/ InitGemCall

\* how the loop stands after iteration i went through to its end
GemOutcomeAfter(i) == IF i < gemMaxIter THEN "none" ELSE "ceiling"

\* while iteration < max_iterations, after iteration i
GemLoopOrDone_NoCeiling(i) == "loop"
GemLoopOrDone(i) == IF i < gemMaxIter THEN "loop" ELSE "done"

\* _prune_old_screenshots called on a history
GemPruneCall ==
    /\ gemPc = "call"
    /\ gemBefore' = gemContents
    /\ gemContents' = PruneOldScreenshots(gemContents)
    /\ gemPruned' = TRUE
    /\ gemPc' = "done"
    /\ UNCHANGED <<gemIter, gemMaxIter, gemFinal, gemOutcome>>
    /\ UNCHANGED notGem

\* An iteration that breaks before anything is appended: generate_content
\* raises, no candidates, or no content in the candidate.
GemIterNothing ==
    /\ gemPc = "loop"
    /\ gemIter' = gemIter + 1
    /\ gemPruned' = FALSE
    /\ gemPc' = "done"
    /\ gemOutcome' \in {"no_content", "exception"}
    /\ UNCHANGED <<gemContents, gemBefore, gemMaxIter, gemFinal>>
    /\ UNCHANGED notGem

\* MALFORMED_FUNCTION_CALL with no function calls: continue
GemIterMalformed ==
    /\ gemPc = "loop"
    /\ gemIter' = gemIter + 1
    /\ gemContents' = Append(gemContents, ModelMessage(<<>>))
    /\ gemPruned' = FALSE
    /\ gemPc' = GemLoopOrDone(gemIter + 1)
    /\ gemOutcome' = GemOutcomeAfter(gemIter + 1)
    /\ UNCHANGED <<gemBefore, gemMaxIter, gemFinal>>
    /\ UNCHANGED notGem

\* no function calls: final_response = reasoning or "", break
GemIterFinal(text) ==
    /\ gemPc = "loop"
    /\ gemIter' = gemIter + 1
    /\ gemContents' = Append(gemContents, ModelMessage(<<>>))
    /\ gemFinal' = text
    /\ gemPruned' = FALSE
    /\ gemPc' = "done"
    /\ gemOutcome' = "stopped"
    /\ UNCHANGED <<gemBefore, gemMaxIter>>
    /\ UNCHANGED notGem

\* function calls executed, their responses appended as one user turn,
\* then _prune_old_screenshots(contents)
GemIterCalls(shape) ==
    /\ gemPc = "loop"
    /\ gemIter' = gemIter + 1
    /\ LET appended == gemContents \o
                       <<ModelMessage(CallNames(shape)), UserTurn(shape)>>
       IN /\ gemBefore' = appended
          /\ gemContents' = PruneOldScreenshots(appended)
    /\ gemPruned' = TRUE
    /\ gemPc' = GemLoopOrDone(gemIter + 1)
    /\ gemOutcome' = GemOutcomeAfter(gemIter + 1)
    /\ UNCHANGED <<gemMaxIter, gemFinal>>
    /\ UNCHANGED notGem

\* an exception while the function calls are executed: break, the
\* candidate's content stays appended
GemIterRaises(shape) ==
    /\ gemPc = "loop"
    /\ gemIter' = gemIter + 1
    /\ gemContents' = Append(gemContents, ModelMessage(CallNames(shape)))
    /\ gemPruned' = FALSE
    /\ gemPc' = "done"
    /\ gemOutcome' = "exception"
    /\ UNCHANGED <<gemBefore, gemMaxIter, gemFinal>>
    /\ UNCHANGED notGem

\* one iteration of the while loop of sampling_loop
NextGemLoop ==
    \/ GemIterNothing
    \/ GemIterMalformed
    \/ \E text \in {"empty", "text"} : GemIterFinal(text)
    \/ \E shape \in TurnShapes : GemIterCalls(shape)
    \/ \E shape \in TurnShapes : GemIterRaises(shape)

NextGem == GemPruneCall \/ NextGemLoop

(***************************************************************************)
(* openai-computer-use: Agent.run_full_turn and Agent.handle_item          *)
(***************************************************************************)
\* Kinds of items of response["output"], by the branch of handle_item:
\*   "message"            an assistant message (role "assistant")
\*   "reasoning"          an item handle_item does nothing with (no role)
\*   "computer_call"      a computer_call whose action type is known
\*   "computer_unknown"   a computer_call whose action type is unknown
\*   "fn_batch"           function_call batch_computer_actions
\*   "fn_nav"             function_call naming a method of the computer
\*                        (goto, back, forward)
\*   "fn_unknown"         function_call naming nothing the computer has
ItemKinds == {"message", "reasoning", "computer_call", "computer_unknown",
              "fn_batch", "fn_nav", "fn_unknown"}

OutputLists == UNION {[1..n -> ItemKinds] : n \in 0..MaxOutput}

\* the item gives the turn an output item (the others return [])
HasOutput(kind) == kind \notin {"message", "reasoning"}

\* _execute_computer_action / handle_item: the remote calls an item makes
RemoteCalls(kind) ==
    CASE kind = "computer_call" -> <<"action", "screenshot", "get_current_url">>
      [] kind = "computer_unknown" -> <<"screenshot", "get_current_url">>
      [] kind = "fn_batch" -> <<"batch", "screenshot">>
      [] kind = "fn_nav" -> <<"method">>
      [] OTHER -> <<>>

\* the output field of the item handle_item returns
OutputOf(kind) ==
    CASE kind \in {"computer_call", "computer_unknown"} -> "screenshot"
      [] kind = "fn_batch" -> "Actions executed successfully."
      [] kind \in {"fn_nav", "fn_unknown"} -> "success"
      [] OTHER -> "none"

IdleOai ==
    /\ oaiPc = "off"
    /\ oaiCalls = 0
    /\ oaiOutput = <<>>
    /\ oaiIdx = 0
    /\ oaiLast = "none"
    /\ oaiHandled = <<>>

\* run_full_turn up to its while loop: new_items = []
InitOai ==
    /\ oaiPc = "loop"
    /\ oaiCalls = 0
    /\ oaiOutput = <<>>
    /\ oaiIdx = 0
    /\ oaiLast = "none"
    /\ oaiHandled = <<>>

\* while new_items[-1].get("role") != "assistant" if new_items else True
OaiContinues(last) == last # "message"

\* after the for loop over response["output"]: the while condition
OaiAfterItems(last) == IF OaiContinues(last) THEN "loop" ELSE "returned"

\* One pass of the while body up to the for loop: create_response, then
\* new_items += response["output"].  The count of model calls saturates at
\* MaxTurnCalls; the code keeps no count.
OaiModelCall(out) ==
    /\ oaiPc = "loop"
    /\ oaiCalls' = IF oaiCalls < MaxTurnCalls THEN oaiCalls + 1 ELSE oaiCalls
    /\ oaiOutput' = out
    /\ oaiIdx' = 0
    /\ oaiHandled' = <<>>
    /\ oaiLast' = IF Len(out) = 0 THEN oaiLast ELSE out[Len(out)]
    /\ oaiPc' = IF Len(out) = 0
                THEN OaiAfterItems(oaiLast)
                ELSE "handle"
    /\ UNCHANGED notOai

\* create_response raises, or the response has no "output" key
OaiModelCallRaises ==
    /\ oaiPc = "loop"
    /\ oaiCalls' = IF oaiCalls < MaxTurnCalls THEN oaiCalls + 1 ELSE oaiCalls
    /\ oaiPc' = "raised"
    /\ UNCHANGED <<oaiOutput, oaiIdx, oaiLast, oaiHandled>>
    /\ UNCHANGED notOai

\* new_items += self.handle_item(item), for the next item of the output
OaiHandleItem ==
    /\ oaiPc = "handle"
    /\ oaiIdx < Len(oaiOutput)
    /\ LET kind == oaiOutput[oaiIdx + 1]
           last == IF HasOutput(kind) THEN "output" ELSE oaiLast
       IN /\ oaiHandled' = Append(oaiHandled,
                 [kind |-> kind, calls |-> RemoteCalls(kind),
                  output |-> OutputOf(kind)])
          /\ oaiLast' = last
          /\ oaiPc' = IF oaiIdx + 1 = Len(oaiOutput)
                      THEN OaiAfterItems(last)
                      ELSE "handle"
    /\ oaiIdx' = oaiIdx + 1
    /\ UNCHANGED <<oaiCalls, oaiOutput>>
    /\ UNCHANGED notOai

\* handle_item raises: a remote call of the item fails, a pending safety
\* check is not acknowledged, or the current URL is blocklisted
OaiHandleItemRaises ==
    /\ oaiPc = "handle"
    /\ oaiIdx < Len(oaiOutput)
    /\ RemoteCalls(oaiOutput[oaiIdx + 1]) # <<>>
    /\ oaiPc' = "raised"
    /\ oaiIdx' = oaiIdx + 1
    /\ UNCHANGED <<oaiCalls, oaiOutput, oaiLast, oaiHandled>>
    /\ UNCHANGED notOai

NextOai ==
    \/ \E out \in OutputLists : OaiModelCall(out)
    \/ OaiModelCallRaises
    \/ OaiHandleItem
    \/ OaiHandleItemRaises

(***************************************************************************)
(* The action executors: gemini-computer-use ComputerTool.execute_action   *)
(* and yutori-computer-use ComputerTool.execute                            *)
(***************************************************************************)
GeminiNames == {"open_web_browser", "click_at", "type_text_at",
                "wait_5_seconds", "go_back", "navigate", "key_combination",
                "custom_tool"}

YutoriNames == {"click", "type", "key_press", "wait", "go_back", "goto_url",
                "read_texts_and_links", "stop", "unknown_type"}

\* the names the executor of a tool does not know
UnknownNames(tool) ==
    IF tool = "gemini" THEN {"custom_tool"} ELSE {"unknown_type"}

\* the actions that check for a required argument before any remote call
NeedsArgs(name) ==
    name \in {"click_at", "type_text_at", "navigate", "key_combination",
              "type", "key_press", "goto_url"}

\* the remote browser-control calls an action makes, in order, before the
\* screenshot
ActionCalls(name) ==
    CASE name = "click_at" -> <<"click_mouse">>
      [] name = "type_text_at" -> <<"click_mouse", "press_key", "type_text">>
      [] name = "navigate" -> <<"press_key", "type_text", "press_key">>
      [] name \in {"go_back", "key_combination", "key_press"} ->
             <<"press_key">>
      [] name = "click" -> <<"click_mouse">>
      [] name = "type" -> <<"type_text">>
      [] name = "goto_url" ->
             <<"press_key", "press_key", "type_text", "press_key">>
      [] name = "read_texts_and_links" -> <<"playwright_execute">>
      [] OTHER -> <<>>

\* SCREENSHOT_DELAY_SECS of the Gemini tool, in milliseconds
GeminiScreenshotDelayMs == 500

\* SCREENSHOT_DELAY_S of the Yutori tool, in milliseconds
YutoriScreenshotDelayMs == 300

\* the asyncio.sleep between the last remote call of an action and the call
\* of screenshot(), in milliseconds
SettleDelayMs_None(tool, name) == 0
SettleDelayMs(tool, name) ==
    IF tool = "gemini" THEN GeminiScreenshotDelayMs
    ELSE CASE name \in {"click", "type", "key_press"} ->
                  YutoriScreenshotDelayMs
           [] name = "go_back" -> 1500
           [] name \in {"goto_url", "wait"} -> 2000
           [] OTHER -> 0

\* the asyncio.sleep inside screenshot(), before capture_screenshot
CaptureDelayMs(tool) == IF tool = "gemini" THEN GeminiScreenshotDelayMs ELSE 0

\* asyncio.sleep(ms / 1000) as it shows in the trace
Sleep(ms) == IF ms > 0 THEN <<"sleep">> ELSE <<>>

\* ToolResult with nothing set
NoResult == [image |-> FALSE, error |-> "none", output |-> FALSE]

ErrorResult(e) == [image |-> FALSE, error |-> e, output |-> FALSE]

IdleEx ==
    /\ exTool = "off"
    /\ exAction = "none"
    /\ exArgs = FALSE
    /\ exQueue = <<>>
    /\ exPc = "off"
    /\ exResult = NoResult
    /\ exRemoteRaised = FALSE
    /\ exCaught = FALSE
    /\ exTrace = <<>>

\* a call of the executor with an action name and an argument mapping
InitEx ==
    /\ exTool \in {"gemini", "yutori"}
    /\ exAction \in (IF exTool = "gemini" THEN GeminiNames ELSE YutoriNames)
    /\ exArgs \in BOOLEAN
    /\ exQueue = <<>>
    /\ exPc = "start"
    /\ exResult = NoResult
    /\ exRemoteRaised = FALSE
    /\ exCaught = FALSE
    /\ exTrace = <<>>

\* The executor up to its first remote call: the vocabulary check, the
\* required arguments, the stop action.
ExStart ==
    /\ exPc = "start"
    /\ IF exAction \in UnknownNames(exTool)
       THEN IF exTool = "gemini"
            THEN exPc' = "returned" /\ exResult' = ErrorResult("unknown_action")
            ELSE exPc' = "raised" /\ UNCHANGED exResult
       ELSE IF NeedsArgs(exAction) /\ ~exArgs
       THEN IF exTool = "gemini"
            THEN exPc' = "returned" /\ exResult' = ErrorResult("missing_argument")
            ELSE exPc' = "raised" /\ UNCHANGED exResult
       ELSE IF exAction = "stop"
       THEN exPc' = "returned" /\ exResult' = [NoResult EXCEPT !.output = TRUE]
       ELSE /\ exPc' = IF ActionCalls(exAction) = <<>> THEN "screenshot"
                                                       ELSE "calls"
            /\ UNCHANGED exResult
    /\ exQueue' = IF exPc' = "calls" THEN ActionCalls(exAction) ELSE <<>>
    /\ exTrace' = IF exPc' = "screenshot"
                  THEN Sleep(SettleDelayMs(exTool, exAction))
                  ELSE <<>>
    /\ UNCHANGED <<exTool, exAction, exArgs, exRemoteRaised, exCaught>>
    /\ UNCHANGED notEx

\* the next remote call of the action returns
ExRemoteCallOk ==
    /\ exPc = "calls"
    /\ exQueue # <<>>
    /\ exQueue' = Tail(exQueue)
    /\ exPc' = IF Tail(exQueue) = <<>> THEN "screenshot" ELSE "calls"
    /\ exTrace' = Append(exTrace, Head(exQueue)) \o
                  (IF Tail(exQueue) = <<>>
                   THEN Sleep(SettleDelayMs(exTool, exAction))
                   ELSE <<>>)
    /\ UNCHANGED <<exTool, exAction, exArgs, exResult, exRemoteRaised,
                   exCaught>>
    /\ UNCHANGED notEx

\* The next remote call of the action raises.  Gemini: the except of
\* execute_action makes it the error of the result.  Yutori: only
\* _handle_read_texts_and_links has a try (it goes on to the screenshot),
\* every other handler lets the exception out of execute.
ExRemoteCallRaises ==
    /\ exPc = "calls"
    /\ exQueue # <<>>
    /\ exRemoteRaised' = TRUE
    /\ exQueue' = <<>>
    /\ exTrace' = Append(exTrace, Head(exQueue))
    /\ IF exTool = "gemini"
       THEN /\ exPc' = "returned"
            /\ exResult' = ErrorResult("action_failed")
            /\ UNCHANGED exCaught
       ELSE IF exAction = "read_texts_and_links"
       THEN /\ exPc' = "screenshot"
            /\ exCaught' = TRUE
            /\ UNCHANGED exResult
       ELSE /\ exPc' = "raised"
            /\ UNCHANGED <<exResult, exCaught>>
    /\ UNCHANGED <<exTool, exAction, exArgs>>
    /\ UNCHANGED notEx

\* screenshot(): capture_screenshot returns.  textOk: the playwright result
\* of read_texts_and_links was a success with data.
ExScreenshotOk(textOk) ==
    /\ exPc = "screenshot"
    /\ exPc' = "returned"
    /\ exResult' = [image |-> TRUE, error |-> "none",
                    output |-> (exAction = "read_texts_and_links"
                                /\ ~exCaught /\ textOk)]
    /\ exTrace' = exTrace \o Sleep(CaptureDelayMs(exTool)) \o
                  <<"capture_screenshot">>
    /\ UNCHANGED <<exTool, exAction, exArgs, exQueue, exRemoteRaised,
                   exCaught>>
    /\ UNCHANGED notEx

\* screenshot(): capture_screenshot raises.  Gemini: the error of the
\* result.  Yutori: screenshot() raises ToolError; inside the try of
\* _handle_read_texts_and_links it is caught once and screenshot() is
\* called again, anywhere else it leaves execute.
ExScreenshotRaises ==
    /\ exPc = "screenshot"
    /\ exRemoteRaised' = TRUE
    /\ exTrace' = exTrace \o Sleep(CaptureDelayMs(exTool)) \o
                  <<"capture_screenshot">>
    /\ IF exTool = "gemini"
       THEN /\ exPc' = "returned"
            /\ exResult' = ErrorResult("screenshot_failed")
            /\ UNCHANGED exCaught
       ELSE IF exAction = "read_texts_and_links" /\ ~exCaught
       THEN /\ exPc' = "screenshot"
            /\ exCaught' = TRUE
            /\ UNCHANGED exResult
       ELSE /\ exPc' = "raised"
            /\ UNCHANGED <<exResult, exCaught>>
    /\ UNCHANGED <<exTool, exAction, exArgs, exQueue>>
    /\ UNCHANGED notEx

NextEx ==
    \/ ExStart
    \/ ExRemoteCallOk
    \/ ExRemoteCallRaises
    \/ \E textOk \in BOOLEAN : ExScreenshotOk(textOk)
    \/ ExScreenshotRaises

(***************************************************************************)
(* Coordinate mapping of a click: gemini-computer-use denormalize_x /      *)
(* denormalize_y and yutori-computer-use _scale_coordinates /              *)
(* _get_coordinates                                                        *)
(***************************************************************************)
\* Gemini uses normalized coordinates (0-1000)
COORDINATE_SCALE == 1000

DEFAULT_SCREEN_SIZE == [width |-> 1024, height |-> 768]

\* viewport_width, viewport_height of the Yutori sampling_loop
YutoriViewport == [width |-> 1280, height |-> 800]

\* the values a model may give: around 0 and around the top of the scale
ModelValues ==
    ((0 - MaxOver) .. MaxOver)
        \cup ((COORDINATE_SCALE - MaxOver) .. (COORDINATE_SCALE + MaxOver))

\* int(a / b) for b > 0: the quotient truncated towards zero
TruncDiv(a, b) == IF a >= 0 THEN a \div b ELSE 0 - ((0 - a) \div b)

\* round(a / b) for b > 0: to the nearest integer, a tie to the even one
RoundHalfEven(a, b) ==
    LET q == a \div b
        r == a % b
    IN  IF 2 * r < b THEN q
        ELSE IF 2 * r > b THEN q + 1
        ELSE IF q % 2 = 0 THEN q ELSE q + 1

\* int((x / COORDINATE_SCALE) * width); on the default screen size the
\* float product truncates to the same integer as the exact quotient for
\* every x of ModelValues
denormalize_x(x) == TruncDiv(x * DEFAULT_SCREEN_SIZE.width, COORDINATE_SCALE)

denormalize_y(y) == TruncDiv(y * DEFAULT_SCREEN_SIZE.height, COORDINATE_SCALE)

\* _scale_coordinates: round((coords[i] / 1000) * viewport extent)
scale_coordinates(c) ==
    <<RoundHalfEven(c[1] * YutoriViewport.width, 1000),
      RoundHalfEven(c[2] * YutoriViewport.height, 1000)>>

\* _get_coordinates raises ToolError("Invalid coordinates") on these
InvalidCoordinates(c) == c[1] < 0 \/ c[2] < 0

IdleMap ==
    /\ mapTool = "off"
    /\ mapX = 0
    /\ mapY = 0
    /\ mapPc = "off"
    /\ mapCall = <<>>

\* a click action with both coordinates given by the model
InitMap ==
    /\ mapTool \in {"gemini", "yutori"}
    /\ mapX \in ModelValues
    /\ mapY \in ModelValues
    /\ mapPc = "start"
    /\ mapCall = <<>>

\* execute_action("click_at", {x, y}): denormalize, then click_mouse
GeminiClickAt ==
    /\ mapTool = "gemini"
    /\ mapPc = "start"
    /\ mapCall' = <<denormalize_x(mapX), denormalize_y(mapY)>>
    /\ mapPc' = "called"
    /\ UNCHANGED <<mapTool, mapX, mapY>>
    /\ UNCHANGED notMap

\* the loop scales the action, execute -> _handle_click -> _get_coordinates
\* -> click_mouse
YutoriClick ==
    /\ mapTool = "yutori"
    /\ mapPc = "start"
    /\ LET c == scale_coordinates(<<mapX, mapY>>)
       IN  IF InvalidCoordinates(c)
           THEN mapPc' = "failed" /\ UNCHANGED mapCall
           ELSE mapPc' = "called" /\ mapCall' = c
    /\ UNCHANGED <<mapTool, mapX, mapY>>
    /\ UNCHANGED notMap

NextMap == GeminiClickAt \/ YutoriClick

(***************************************************************************)
(* eval-protocol KernelBrowserAdapter.pixel_to_normalized and              *)
(* normalized_to_pixel, one axis at a time                                 *)
(***************************************************************************)
\* the default viewport of KernelBrowserAdapter
viewport_width == 1920

viewport_height == 1080

Extent(axis) == IF axis = "x" THEN viewport_width ELSE viewport_height

\* int(norm * extent / 999); the operands are non-negative integers, so
\* int() of the float quotient is the integer quotient
normalized_to_pixel(norm, extent) == (norm * extent) \div 999

\* int(pixel * 999 / extent)
pixel_to_normalized(pixel, extent) == (pixel * 999) \div extent

IdleRt ==
    /\ rtAxis = "off"
    /\ rtPixel = 0
    /\ rtNorm = -1
    /\ rtBack = -1
    /\ rtPc = "off"

\* a pixel of the viewport on one axis
InitRt ==
    /\ rtAxis \in {"x", "y"}
    /\ rtPixel \in 0 .. (Extent(rtAxis) - 1)
    /\ rtNorm = -1
    /\ rtBack = -1
    /\ rtPc = "start"

PixelToNormalized ==
    /\ rtPc = "start"
    /\ rtNorm' = pixel_to_normalized(rtPixel, Extent(rtAxis))
    /\ rtPc' = "normalized"
    /\ UNCHANGED <<rtAxis, rtPixel, rtBack>>
    /\ UNCHANGED notRt

NormalizedToPixel ==
    /\ rtPc = "normalized"
    /\ rtBack' = normalized_to_pixel(rtNorm, Extent(rtAxis))
    /\ rtPc' = "back"
    /\ UNCHANGED <<rtAxis, rtPixel, rtNorm>>
    /\ UNCHANGED notRt

NextRt == PixelToNormalized \/ NormalizedToPixel

(***************************************************************************)
(* moondream-groq-computer-use: _coerce_coords (llm_loop.py) and           *)
(* normalize_point (loop.py).  A coordinate value v is held as the number  *)
(* of halves in it, so that 0.5 and 1.5 can be given.                      *)
(***************************************************************************)
\* tools/types.py of the moondream template: DEFAULT_SCREEN_SIZE
MoondreamScreenSize == [width |-> 1200, height |-> 800]

\* tools/types.py of the moondream template: COORDINATE_SCALE
MoondreamScale == 1000

\* the values given, in halves: 0, 0.5, 1, 1.5, ... and values around the
\* middle and the top of the scale (the last one is above it)
CoordHalves ==
    (0 .. MaxHalves)
        \cup {MoondreamScale, 2 * MoondreamScale, 2 * MoondreamScale + 2}

\* 0 <= v <= 1
InUnit(h) == 0 <= h /\ h <= 2

\* 0 <= v <= COORDINATE_SCALE
InScale(h) == 0 <= h /\ h <= 2 * MoondreamScale

\* int(v * COORDINATE_SCALE)
FromUnit(h) == TruncDiv(h * MoondreamScale, 2)

\* int(v)
FromScale(h) == TruncDiv(h, 2)

\* int((v / extent) * COORDINATE_SCALE)
FromPixel(h, extent) == TruncDiv(h * MoondreamScale, 2 * extent)

coerce_coords(hx, hy, size) ==
    IF InUnit(hx) /\ InUnit(hy) THEN <<FromUnit(hx), FromUnit(hy)>>
    ELSE IF InScale(hx) /\ InScale(hy) THEN <<FromScale(hx), FromScale(hy)>>
    ELSE <<FromPixel(hx, size.width), FromPixel(hy, size.height)>>

normalize_point(hx, hy, size) ==
    IF InUnit(hx) /\ InUnit(hy) THEN <<FromUnit(hx), FromUnit(hy)>>
    ELSE <<FromPixel(hx, size.width), FromPixel(hy, size.height)>>

IdleCe ==
    /\ ceFn = "off"
    /\ ceX = 0
    /\ ceY = 0
    /\ cePc = "off"
    /\ ceOut = <<>>

\* a call with numeric x and y
InitCe ==
    /\ ceFn \in {"coerce_coords", "normalize_point"}
    /\ ceX \in CoordHalves
    /\ ceY \in CoordHalves
    /\ cePc = "start"
    /\ ceOut = <<>>

CoerceCoords ==
    /\ ceFn = "coerce_coords"
    /\ cePc = "start"
    /\ ceOut' = coerce_coords(ceX, ceY, MoondreamScreenSize)
    /\ cePc' = "done"
    /\ UNCHANGED <<ceFn, ceX, ceY>>
    /\ UNCHANGED notCe

NormalizePoint ==
    /\ ceFn = "normalize_point"
    /\ cePc = "start"
    /\ ceOut' = normalize_point(ceX, ceY, MoondreamScreenSize)
    /\ cePc' = "done"
    /\ UNCHANGED <<ceFn, ceX, ceY>>
    /\ UNCHANGED notCe

NextCe == CoerceCoords \/ NormalizePoint

(***************************************************************************)
(* Key-name normalizers: anthropic-computer-use BaseComputerTool.map_key,  *)
(* yutori-computer-use ComputerTool._map_key, eval-protocol normalize_key. *)
(* A key token is the sequence of its characters; a key is the sequence of *)
(* its tokens, joined by '+' in the source.                                *)
(***************************************************************************)
\* the letters of the tokens below: <<lower case, upper case>>
LetterPairs ==
    {<<"a", "A">>, <<"e", "E">>, <<"f", "F">>, <<"l", "L">>, <<"n", "N">>,
     <<"p", "P">>, <<"q", "Q">>, <<"r", "R">>, <<"t", "T">>, <<"u", "U">>,
     <<"x", "X">>}

\* str.lower() and str.upper() on one character
LowerChar(c) ==
    IF \E p \in LetterPairs : p[2] = c
    THEN (CHOOSE p \in LetterPairs : p[2] = c)[1]
    ELSE c

UpperChar(c) ==
    IF \E p \in LetterPairs : p[1] = c
    THEN (CHOOSE p \in LetterPairs : p[1] = c)[2]
    ELSE c

\* str.lower()
Lower(t) == [i \in 1 .. Len(t) |-> LowerChar(t[i])]

\* str.capitalize(): first character upper case, the rest lower case
Capitalize(t) ==
    [i \in 1 .. Len(t) |-> IF i = 1 THEN UpperChar(t[i]) ELSE LowerChar(t[i])]

\* tokens the tables know in some spelling
KnownTokens ==
    {<<"u", "p">>, <<"U", "p">>, <<"a", "l", "t">>, <<"A", "l", "t">>,
     <<"f", "1">>, <<"F", "1">>, <<"e", "n", "t", "e", "r">>,
     <<"E", "n", "t", "e", "r">>}

\* tokens no table knows in any spelling
UnknownTokens == {<<"q">>, <<"Q">>, <<"x", "Q">>, <<"X", "q">>}

KeyTokens == KnownTokens \cup UnknownTokens

\* the keys given: one token, or a '+' combination of up to MaxKeys tokens
KeyInputs == UNION {[1 .. n -> KeyTokens] : n \in 1 .. MaxKeys}

\* the entries of a table that lie in KeyTokens, as <<key, value>> pairs
AnthropicKeyMap ==
    {<<<<"u", "p">>, <<"U", "p">>>>,
     <<<<"f", "1">>, <<"F", "1">>>>,
     <<<<"e", "n", "t", "e", "r">>, <<"R", "e", "t", "u", "r", "n">>>>}

AnthropicModifierKeyMap == {<<<<"a", "l", "t">>, <<"a", "l", "t">>>>}

YutoriKeyMap ==
    {<<<<"F", "1">>, <<"F", "1">>>>,
     <<<<"E", "n", "t", "e", "r">>, <<"R", "e", "t", "u", "r", "n">>>>}

YutoriModifierMap == {<<<<"a", "l", "t">>, <<"a", "l", "t">>>>}

\* key in table, table[key]
InTable(table, t) == \E e \in table : e[1] = t

Lookup(table, t) == (CHOOSE e \in table : e[1] = t)[2]

\* BaseComputerTool.map_key
map_key(key) ==
    LET whole == Lower(key[1])
        part(t) ==
            IF InTable(AnthropicModifierKeyMap, Lower(t))
            THEN Lookup(AnthropicModifierKeyMap, Lower(t))
            ELSE IF InTable(AnthropicKeyMap, Lower(t))
            THEN Lookup(AnthropicKeyMap, Lower(t))
            ELSE Lower(t)
    IN  IF Len(key) = 1 /\ InTable(AnthropicModifierKeyMap, whole)
        THEN <<Lookup(AnthropicModifierKeyMap, whole)>>
        ELSE IF Len(key) = 1 /\ InTable(AnthropicKeyMap, whole)
        THEN <<Lookup(AnthropicKeyMap, whole)>>
        ELSE IF Len(key) > 1
        THEN [i \in 1 .. Len(key) |-> part(key[i])]
        ELSE key

\* yutori ComputerTool._map_key
yutori_map_key(key) ==
    LET part(t) ==
            IF InTable(YutoriModifierMap, Lower(t))
            THEN Lookup(YutoriModifierMap, Lower(t))
            ELSE IF InTable(YutoriKeyMap, t) THEN Lookup(YutoriKeyMap, t)
            ELSE t
    IN  IF Len(key) > 1
        THEN [i \in 1 .. Len(key) |-> part(key[i])]
        ELSE IF InTable(YutoriKeyMap, key[1])
        THEN <<Lookup(YutoriKeyMap, key[1])>>
        ELSE key

\* eval-protocol normalize_key, applied to every key of action.keys
normalize_key(t) ==
    IF Lower(t) = <<"e", "n", "t", "e", "r">>
    THEN <<"R", "e", "t", "u", "r", "n">>
    ELSE Capitalize(t)

IdleKey ==
    /\ keyTool = "off"
    /\ keyIn = <<>>
    /\ keyOut = <<>>
    /\ keyPc = "off"

InitKey ==
    /\ keyTool \in {"anthropic", "yutori", "eval"}
    /\ keyIn \in KeyInputs
    /\ keyOut = <<>>
    /\ keyPc = "start"

\* anthropic __call__: mapped_key = self.map_key(key); press_key
AnthropicPressKey ==
    /\ keyTool = "anthropic"
    /\ keyPc = "start"
    /\ keyOut' = map_key(keyIn)
    /\ keyPc' = "pressed"
    /\ UNCHANGED <<keyTool, keyIn>>
    /\ UNCHANGED notKey

\* yutori _handle_key_press: mapped_key = self._map_key(key_comb); press_key
YutoriPressKey ==
    /\ keyTool = "yutori"
    /\ keyPc = "start"
    /\ keyOut' = yutori_map_key(keyIn)
    /\ keyPc' = "pressed"
    /\ UNCHANGED <<keyTool, keyIn>>
    /\ UNCHANGED notKey

\* eval-protocol execute_action(KeyAction): normalize every key, join with
\* '+', press_key
EvalPressKey ==
    /\ keyTool = "eval"
    /\ keyPc = "start"
    /\ keyOut' = [i \in 1 .. Len(keyIn) |-> normalize_key(keyIn[i])]
    /\ keyPc' = "pressed"
    /\ UNCHANGED <<keyTool, keyIn>>
    /\ UNCHANGED notKey

NextKey == AnthropicPressKey \/ YutoriPressKey \/ EvalPressKey

(***************************************************************************)
(* anthropic-computer-use: BaseComputerTool.__call__ and screenshot        *)
(***************************************************************************)
AnthropicActions ==
    {"mouse_move", "left_click_drag", "key", "type", "left_click",
     "screenshot", "cursor_position", "zoom"}

\* the remote call an action makes once its arguments have been accepted
AnRemoteCall(action) ==
    CASE action = "mouse_move" -> <<"move_mouse">>
      [] action = "left_click_drag" -> <<"drag_mouse">>
      [] action = "key" -> <<"press_key">>
      [] action = "type" -> <<"type_text">>
      [] action = "left_click" -> <<"click_mouse">>
      [] OTHER -> <<>>

\* __call__ raises ToolError before any remote call
AnRejects ==
    CASE anAction \in {"mouse_move", "left_click_drag"} ->
             anCoordinate = "none" \/ anText \/ anCoordinate = "negative"
      [] anAction \in {"key", "type"} -> ~anText \/ anCoordinate # "none"
      [] anAction = "screenshot" -> anText
      [] anAction = "cursor_position" -> TRUE
      [] anAction = "left_click" -> anText \/ anCoordinate = "negative"
      [] OTHER -> TRUE

IdleAn ==
    /\ anAction = "none"
    /\ anText = FALSE
    /\ anCoordinate = "none"
    /\ anStart = FALSE
    /\ anPc = "off"
    /\ anTrace = <<>>

\* a call of the tool with an action and its arguments
InitAn ==
    /\ anAction \in AnthropicActions
    /\ anText \in BOOLEAN
    /\ anCoordinate \in {"none", "ok", "negative"}
    /\ anStart \in BOOLEAN
    /\ anPc = "start"
    /\ anTrace = <<>>

\* the argument checks, then the remote call of the action, which returns
AnDispatch ==
    /\ anPc = "start"
    /\ IF AnRejects
       THEN anPc' = "raised" /\ UNCHANGED anTrace
       ELSE anPc' = "screenshot" /\ anTrace' = AnRemoteCall(anAction)
    /\ UNCHANGED <<anAction, anText, anCoordinate, anStart>>
    /\ UNCHANGED notAn

\* the arguments are accepted and the remote call of the action raises
AnDispatchRaises ==
    /\ anPc = "start"
    /\ ~AnRejects
    /\ AnRemoteCall(anAction) # <<>>
    /\ anPc' = "raised"
    /\ anTrace' = AnRemoteCall(anAction)
    /\ UNCHANGED <<anAction, anText, anCoordinate, anStart>>
    /\ UNCHANGED notAn

\* screenshot(): asyncio.sleep(self._screenshot_delay), capture_screenshot
AnScreenshot(ok) ==
    /\ anPc = "screenshot"
    /\ anTrace' = anTrace \o <<"sleep", "capture_screenshot">>
    /\ anPc' = IF ok THEN "returned" ELSE "raised"
    /\ UNCHANGED <<anAction, anText, anCoordinate, anStart>>
    /\ UNCHANGED notAn

NextAn ==
    \/ AnDispatch
    \/ AnDispatchRaises
    \/ \E ok \in BOOLEAN : AnScreenshot(ok)

(***************************************************************************)
(* KernelBrowserSession: the context manager of gemini-computer-use,       *)
(* anthropic-computer-use (async) and openai-computer-use (sync)           *)
(***************************************************************************)
SessionTemplates == {"gemini", "anthropic", "openai"}

\* gemini and anthropic keep the client in _kernel and clear it on exit;
\* openai holds it in the dataclass field kernel
ClearsKernel(template) == template \in {"gemini", "anthropic"}

IdleKs ==
    /\ ksTemplate = "off"
    /\ ksRecord = FALSE
    /\ ksPc = "off"
    /\ ksSession = FALSE
    /\ ksReplayId = FALSE
    /\ ksKernel = FALSE
    /\ ksBodyRaised = FALSE
    /\ ksPending = FALSE
    /\ ksPolls = 0
    /\ ksDeletes = 0
    /\ ksRead = "none"

\* a constructed session, about to be entered
InitKs ==
    /\ ksTemplate \in SessionTemplates
    /\ ksRecord \in BOOLEAN
    /\ ksPc = "enter"
    /\ ksSession = FALSE
    /\ ksReplayId = FALSE
    /\ ksKernel = (ksTemplate = "openai")
    /\ ksBodyRaised = FALSE
    /\ ksPending = FALSE
    /\ ksPolls = 0
    /\ ksDeletes = 0
    /\ ksRead = "none"

\* __aenter__ / __enter__: the client, then browsers.create, which returns
\* or raises
KsCreate(ok) ==
    /\ ksPc = "enter"
    /\ ksKernel' = TRUE
    /\ ksSession' = ok
    /\ ksPc' = IF ~ok THEN "raised" ELSE IF ksRecord THEN "replay" ELSE "body"
    /\ UNCHANGED <<ksTemplate, ksRecord, ksReplayId, ksBodyRaised, ksPending,
                   ksPolls, ksDeletes, ksRead>>
    /\ UNCHANGED notKs

\* _start_replay inside try/except Exception: a failure is only printed
KsStartReplay(ok) ==
    /\ ksPc = "replay"
    /\ ksReplayId' = ok
    /\ ksPc' = "body"
    /\ UNCHANGED <<ksTemplate, ksRecord, ksSession, ksKernel, ksBodyRaised,
                   ksPending, ksPolls, ksDeletes, ksRead>>
    /\ UNCHANGED notKs

\* the body of the with statement returns or raises; __aexit__ starts: the
\* replay is stopped when record_replay and replay_id, else the finally
\* clause comes next
KsBody(raises) ==
    /\ ksPc = "body"
    /\ ksBodyRaised' = raises
    /\ ksPc' = IF ksRecord /\ ksReplayId THEN "stop" ELSE "delete"
    /\ UNCHANGED <<ksTemplate, ksRecord, ksSession, ksReplayId, ksKernel,
                   ksPending, ksPolls, ksDeletes, ksRead>>
    /\ UNCHANGED notKs

\* _stop_and_get_replay_url: replays.stop returns, or raises out of the try
KsStopReplay(ok) ==
    /\ ksPc = "stop"
    /\ ksPending' = ~ok
    /\ ksPc' = IF ok THEN "poll" ELSE "delete"
    /\ UNCHANGED <<ksTemplate, ksRecord, ksSession, ksReplayId, ksKernel,
                   ksBodyRaised, ksPolls, ksDeletes, ksRead>>
    /\ UNCHANGED notKs

\* one round of the polling loop: replays.list shows the replay ("ready"),
\* does not ("waiting"), or raises, which except Exception: pass swallows;
\* the loop gives up after max_wait
KsPoll(outcome) ==
    /\ ksPc = "poll"
    /\ ksPolls < MaxPolls
    /\ ksPolls' = ksPolls + 1
    /\ ksPc' = IF outcome = "ready" \/ ksPolls + 1 = MaxPolls
               THEN "delete" ELSE "poll"
    /\ UNCHANGED <<ksTemplate, ksRecord, ksSession, ksReplayId, ksKernel,
                   ksBodyRaised, ksPending, ksDeletes, ksRead>>
    /\ UNCHANGED notKs

\* finally: browsers.delete_by_id(session_id), which returns or raises;
\* self._kernel = None is the statement after the try/finally
KsDelete(ok) ==
    /\ ksPc = "delete"
    /\ ksDeletes' = ksDeletes + 1
    /\ ksPending' = (ksPending \/ ~ok)
    /\ ksKernel' = IF ClearsKernel(ksTemplate) /\ ok /\ ~ksPending
                   THEN FALSE ELSE ksKernel
    /\ ksPc' = "exited"
    /\ UNCHANGED <<ksTemplate, ksRecord, ksSession, ksReplayId, ksBodyRaised,
                   ksPolls, ksRead>>
    /\ UNCHANGED notKs

\* session.kernel is read after the with statement was left
KsReadKernel ==
    /\ ksPc = "exited"
    /\ ksRead' = IF ksKernel THEN "client" ELSE "raises"
    /\ ksPc' = "read"
    /\ UNCHANGED <<ksTemplate, ksRecord, ksSession, ksReplayId, ksKernel,
                   ksBodyRaised, ksPending, ksPolls, ksDeletes>>
    /\ UNCHANGED notKs

NextKs ==
    \/ \E ok \in BOOLEAN : KsCreate(ok)
    \/ \E ok \in BOOLEAN : KsStartReplay(ok)
    \/ \E raises \in BOOLEAN : KsBody(raises)
    \/ \E ok \in BOOLEAN : KsStopReplay(ok)
    \/ \E outcome \in {"ready", "waiting", "raises"} : KsPoll(outcome)
    \/ \E ok \in BOOLEAN : KsDelete(ok)
    \/ KsReadKernel

(***************************************************************************)
(* The entry points that create a browser: eval-protocol run_rollout,      *)
(* claude-agent-sdk run_agent, openai-computer-use test_local.main         *)
(***************************************************************************)
EntryPoints == {"run_rollout", "run_agent", "test_local"}

\* the entry points whose work after browsers.create sits in try/finally
\* with browsers.delete_by_id in the finally clause
DeletesInFinally(entry) == entry \in {"run_agent", "test_local"}

IdleEp ==
    /\ epEntry = "off"
    /\ epScore = FALSE
    /\ epKey = FALSE
    /\ epPc = "off"
    /\ epCreated = FALSE
    /\ epTurns = 0
    /\ epOutcome = "none"
    /\ epFailed = FALSE
    /\ epDeletes = 0

\* an invocation with valid required fields; test_local checks its keys
\* before the browser is created, so there OPENAI_API_KEY is set
InitEp ==
    /\ epEntry \in EntryPoints
    /\ epScore \in (IF epEntry = "run_rollout" THEN BOOLEAN ELSE {FALSE})
    /\ epKey \in (IF epEntry = "run_rollout" THEN BOOLEAN ELSE {TRUE})
    /\ epPc = "start"
    /\ epCreated = FALSE
    /\ epTurns = 0
    /\ epOutcome = "none"
    /\ epFailed = FALSE
    /\ epDeletes = 0

\* where an exception raised after browsers.create goes
EpOnException == IF DeletesInFinally(epEntry) THEN "cleanup" ELSE "raised"

\* browsers.create returns a session, or raises
EpCreate(ok) ==
    /\ epPc = "start"
    /\ epCreated' = ok
    /\ epFailed' = ~ok
    /\ epPc' = IF ok THEN "setup" ELSE "raised"
    /\ UNCHANGED <<epEntry, epScore, epKey, epTurns, epDeletes,
                   epOutcome>>
    /\ UNCHANGED notEp

\* what comes before the agent runs: adapter.navigate(initial_url),
\* the playwright tool and the ClaudeSDKClient, computer.goto
EpSetup(ok) ==
    /\ epPc = "setup"
    /\ epFailed' = ~ok
    /\ epPc' = IF ok THEN "run" ELSE EpOnException
    /\ UNCHANGED <<epEntry, epScore, epKey, epCreated, epTurns, epDeletes,
                   epOutcome>>
    /\ UNCHANGED notEp

\* one step of the agent: a step of run_agent_loop, an AssistantMessage of
\* receive_response, a model call of run_full_turn
EpAgentStep ==
    /\ epPc = "run"
    /\ epTurns < MaxTurns
    /\ epTurns' = epTurns + 1
    /\ UNCHANGED <<epEntry, epScore, epKey, epPc, epCreated, epFailed,
                   epDeletes, epOutcome>>
    /\ UNCHANGED notEp

\* The agent run ends: "returns" (run_agent_loop returns; ResultMessage
\* success; run_full_turn returns), "fails" (run_agent: ResultMessage that
\* is no success, raise RuntimeError; the others report a failure in their
\* result) or "raises".
EpRun(outcome) ==
    /\ epPc = "run"
    /\ epOutcome' = outcome
    /\ LET exc == outcome = "raises"
                  \/ (outcome = "fails" /\ epEntry = "run_agent")
       IN /\ epFailed' = exc
          /\ epPc' = IF exc THEN EpOnException
                     ELSE IF epEntry = "run_rollout"
                     THEN (IF epScore THEN "score" ELSE "returned")
                     ELSE "cleanup"
    /\ UNCHANGED <<epEntry, epScore, epKey, epCreated, epTurns, epDeletes>>
    /\ UNCHANGED notEp

\* run_rollout with score: ValueError without OPENAI_API_KEY, else
\* webjudge.evaluate returns or raises
EpScoreRollout(ok) ==
    /\ epPc = "score"
    /\ epFailed' = (~epKey \/ ~ok)
    /\ epPc' = IF epKey /\ ok THEN "returned" ELSE "raised"
    /\ UNCHANGED <<epEntry, epScore, epKey, epCreated, epTurns, epDeletes,
                   epOutcome>>
    /\ UNCHANGED notEp

\* finally: browsers.delete_by_id(session_id), which returns or raises
EpFinally(ok) ==
    /\ epPc = "cleanup"
    /\ epDeletes' = epDeletes + 1
    /\ epFailed' = (epFailed \/ ~ok)
    /\ epPc' = IF epFailed \/ ~ok THEN "raised" ELSE "returned"
    /\ UNCHANGED <<epEntry, epScore, epKey, epCreated, epTurns,
                   epOutcome>>
    /\ UNCHANGED notEp

NextEp ==
    \/ \E ok \in BOOLEAN : EpCreate(ok)
    \/ \E ok \in BOOLEAN : EpSetup(ok)
    \/ EpAgentStep
    \/ \E outcome \in {"returns", "fails", "raises"} : EpRun(outcome)
    \/ \E ok \in BOOLEAN : EpScoreRollout(ok)
    \/ \E ok \in BOOLEAN : EpFinally(ok)

(***************************************************************************)
(* yutori-computer-use: sampling_loop (loop.py), the playwright connection *)
(* and the exit paths of the loop                                          *)
(***************************************************************************)
\* finally: if playwright_tool
Disconnects_AnyMode(mode) == TRUE
Disconnects(mode) == mode = "playwright"

IdleYl ==
    /\ ylMode = "off"
    /\ ylCdp = FALSE
    /\ ylMaxIter = 0
    /\ ylPc = "off"
    /\ ylIter = 0
    /\ ylLeft = 0
    /\ ylConnected = FALSE
    /\ ylFailed = FALSE
    /\ ylExit = "none"
    /\ ylDisconnects = 0

\* a call of sampling_loop
InitYl ==
    /\ ylMode \in {"computer_use", "playwright"}
    /\ ylCdp \in BOOLEAN
    /\ ylMaxIter \in 1..MaxYutoriIter
    /\ ylPc = "setup"
    /\ ylIter = 0
    /\ ylLeft = 0
    /\ ylConnected = FALSE
    /\ ylFailed = FALSE
    /\ ylExit = "none"
    /\ ylDisconnects = 0

\* The tool is made before the try: in playwright mode ValueError without
\* cdp_ws_url, else PlaywrightComputerTool and connect(), which returns or
\* raises; in computer_use mode the ComputerTool.
YlSetup(connects) ==
    /\ ylPc = "setup"
    /\ (ylMode = "computer_use" \/ ~ylCdp) => connects
    /\ IF ylMode = "playwright"
       THEN IF ylCdp /\ connects
            THEN ylConnected' = TRUE /\ ylPc' = "shot" /\ UNCHANGED ylFailed
            ELSE ylFailed' = TRUE /\ ylPc' = "raised" /\ UNCHANGED ylConnected
       ELSE ylPc' = "shot" /\ UNCHANGED <<ylConnected, ylFailed>>
    /\ UNCHANGED <<ylMode, ylCdp, ylMaxIter, ylIter, ylLeft, ylExit,
                   ylDisconnects>>
    /\ UNCHANGED notYl

\* initial_screenshot = await computer_tool.screenshot(): returns, or raises
\* ToolError inside the try
YlInitialScreenshot(ok) ==
    /\ ylPc = "shot"
    /\ IF ok
       THEN ylPc' = "loop" /\ UNCHANGED <<ylFailed, ylExit>>
       ELSE ylPc' = "finally" /\ ylFailed' = TRUE /\ ylExit' = "screenshot"
    /\ UNCHANGED <<ylMode, ylCdp, ylMaxIter, ylIter, ylLeft, ylConnected,
                   ylDisconnects>>
    /\ UNCHANGED notYl

\* One pass of the while loop up to the for loop over the actions: the API
\* call raises or gives no choices ("api_error"), the response has no
\* actions ("no_actions": break), or it has n actions.
YlModelCall(outcome, n) ==
    /\ ylPc = "loop"
    /\ ylIter < ylMaxIter
    /\ ylIter' = ylIter + 1
    /\ (outcome # "actions") => n = 1
    /\ CASE outcome = "api_error" ->
              /\ ylPc' = "finally"
              /\ ylFailed' = TRUE
              /\ ylExit' = "api_error"
              /\ UNCHANGED ylLeft
         [] outcome = "no_actions" ->
              /\ ylPc' = "finally"
              /\ ylExit' = "no_actions"
              /\ UNCHANGED <<ylFailed, ylLeft>>
         [] outcome = "actions" ->
              /\ ylPc' = "batch"
              /\ ylLeft' = n
              /\ UNCHANGED <<ylFailed, ylExit>>
    /\ UNCHANGED <<ylMode, ylCdp, ylMaxIter, ylConnected, ylDisconnects>>
    /\ UNCHANGED notYl

\* One action of the response: a stop action returns from inside the try;
\* any other action is executed (an exception of execute becomes an error
\* result) and its observation appended; after the last action the while
\* condition is looked at again.
YlAction(kind) ==
    /\ ylPc = "batch"
    /\ ylLeft > 0
    /\ IF kind = "stop"
       THEN /\ ylPc' = "finally"
            /\ ylExit' = "stop"
            /\ UNCHANGED ylLeft
       ELSE /\ ylLeft' = ylLeft - 1
            /\ IF ylLeft > 1
               THEN ylPc' = "batch" /\ UNCHANGED ylExit
               ELSE IF ylIter < ylMaxIter
               THEN ylPc' = "loop" /\ UNCHANGED ylExit
               ELSE ylPc' = "finally" /\ ylExit' = "ceiling"
    /\ UNCHANGED <<ylMode, ylCdp, ylMaxIter, ylIter, ylConnected, ylFailed,
                   ylDisconnects>>
    /\ UNCHANGED notYl

\* finally: if playwright_tool: await playwright_tool.disconnect(), which
\* returns or raises
YlFinally(ok) ==
    /\ ylPc = "finally"
    /\ ~Disconnects(ylMode) => ok
    /\ ylDisconnects' = IF Disconnects(ylMode) THEN ylDisconnects + 1
                        ELSE ylDisconnects
    /\ ylFailed' = (ylFailed \/ ~ok)
    /\ ylPc' = IF ylFailed \/ ~ok THEN "raised" ELSE "returned"
    /\ UNCHANGED <<ylMode, ylCdp, ylMaxIter, ylIter, ylLeft, ylConnected,
                   ylExit>>
    /\ UNCHANGED notYl

NextYl ==
    \/ \E connects \in BOOLEAN : YlSetup(connects)
    \/ \E ok \in BOOLEAN : YlInitialScreenshot(ok)
    \/ \E outcome \in {"api_error", "no_actions", "actions"}, n \in 1..MaxBatch :
          YlModelCall(outcome, n)
    \/ \E kind \in {"stop", "ok", "error"} : YlAction(kind)
    \/ \E ok \in BOOLEAN : YlFinally(ok)

(***************************************************************************)
(* anthropic-computer-use: ComputerTool20250124.__call__, a click with an  *)
(* optional modifier key                                                   *)
(***************************************************************************)
ClickActions ==
    {"left_click", "right_click", "double_click", "triple_click",
     "middle_click"}

IdleMk ==
    /\ mkAction = "none"
    /\ mkKey = FALSE
    /\ mkText = FALSE
    /\ mkCoordinate = "none"
    /\ mkPc = "off"
    /\ mkTrace = <<>>

\* a call of the tool with a click action and its arguments
InitMk ==
    /\ mkAction \in ClickActions
    /\ mkKey \in BOOLEAN
    /\ mkText \in BOOLEAN
    /\ mkCoordinate \in {"none", "ok", "invalid"}
    /\ mkPc = "start"
    /\ mkTrace = <<>>

\* text is refused, the coordinate validated (none: the last mouse
\* position); then the key-down when key is given, else the click
MkValidate ==
    /\ mkPc = "start"
    /\ mkPc' = IF mkText \/ mkCoordinate = "invalid" THEN "raised"
               ELSE IF mkKey THEN "down" ELSE "click"
    /\ UNCHANGED <<mkAction, mkKey, mkText, mkCoordinate, mkTrace>>
    /\ UNCHANGED notMk

\* press_key(keys=[mapped_key], click_type="down") returns or raises
MkKeyDown(ok) ==
    /\ mkPc = "down"
    /\ mkTrace' = Append(mkTrace, IF ok THEN "key_down" ELSE "key_down_raised")
    /\ mkPc' = IF ok THEN "click" ELSE "raised"
    /\ UNCHANGED <<mkAction, mkKey, mkText, mkCoordinate>>
    /\ UNCHANGED notMk

\* click_mouse returns or raises; nothing catches the exception
MkClick(ok) ==
    /\ mkPc = "click"
    /\ mkTrace' = Append(mkTrace, IF ok THEN "click_mouse" ELSE "click_raised")
    /\ mkPc' = IF ~ok THEN "raised" ELSE IF mkKey THEN "up" ELSE "screenshot"
    /\ UNCHANGED <<mkAction, mkKey, mkText, mkCoordinate>>
    /\ UNCHANGED notMk

\* press_key(keys=[mapped_key], click_type="up") returns or raises
MkKeyUp(ok) ==
    /\ mkPc = "up"
    /\ mkTrace' = Append(mkTrace, IF ok THEN "key_up" ELSE "key_up_raised")
    /\ mkPc' = IF ok THEN "screenshot" ELSE "raised"
    /\ UNCHANGED <<mkAction, mkKey, mkText, mkCoordinate>>
    /\ UNCHANGED notMk

\* return await self.screenshot()
MkScreenshot(ok) ==
    /\ mkPc = "screenshot"
    /\ mkTrace' = mkTrace \o <<"sleep", "capture_screenshot">>
    /\ mkPc' = IF ok THEN "returned" ELSE "raised"
    /\ UNCHANGED <<mkAction, mkKey, mkText, mkCoordinate>>
    /\ UNCHANGED notMk

NextMk ==
    \/ MkValidate
    \/ \E ok \in BOOLEAN : MkKeyDown(ok)
    \/ \E ok \in BOOLEAN : MkClick(ok)
    \/ \E ok \in BOOLEAN : MkKeyUp(ok)
    \/ \E ok \in BOOLEAN : MkScreenshot(ok)

(***************************************************************************)
(* moondream-groq-computer-use: _resolve_target_coords and                 *)
(* _ensure_screenshot (loop.py)                                            *)
(***************************************************************************)
\* retries: int(step.get("retries", options.max_retries)), zero included
RetryValues == 0..(MaxAttempts + 1)

\* attempts = max(1, retries)
Attempts(retries) == IF retries > 1 THEN retries ELSE 1

\* if attempt < attempts - 1: sleep, last_screenshot = None
TriesAgain_AfterLast(attempt, attempts) == TRUE
TriesAgain(attempt, attempts) == attempt < attempts - 1

IdleRs ==
    /\ rsXY = FALSE
    /\ rsTarget = FALSE
    /\ rsRetries = 0
    /\ rsLast = FALSE
    /\ rsPc = "off"
    /\ rsAttempt = 0
    /\ rsTrace = <<>>
    /\ rsResult = "none"

\* a call for a click or type step
InitRs ==
    /\ rsXY \in BOOLEAN
    /\ rsTarget \in BOOLEAN
    /\ rsRetries \in RetryValues
    /\ rsLast \in BOOLEAN
    /\ rsPc = "start"
    /\ rsAttempt = 0
    /\ rsTrace = <<>>
    /\ rsResult = "none"

\* x and y in the step: normalize_point; no target: None; else the loop
RsStart ==
    /\ rsPc = "start"
    /\ IF rsXY THEN rsPc' = "returned" /\ rsResult' = "coords"
       ELSE IF ~rsTarget THEN rsPc' = "returned" /\ rsResult' = "None"
       ELSE rsPc' = "ensure" /\ UNCHANGED rsResult
    /\ UNCHANGED <<rsXY, rsTarget, rsRetries, rsLast, rsAttempt, rsTrace>>
    /\ UNCHANGED notRs

\* _ensure_screenshot: last_screenshot when there is one, else
\* computer.screenshot(), which gives an image or makes it raise
RsEnsure(ok) ==
    /\ rsPc = "ensure"
    /\ rsLast => ok
    /\ rsTrace' = Append(rsTrace, IF rsLast THEN "reuse" ELSE "capture")
    /\ rsPc' = IF ok THEN "point" ELSE "raised"
    /\ UNCHANGED <<rsXY, rsTarget, rsRetries, rsLast, rsAttempt, rsResult>>
    /\ UNCHANGED notRs

\* moondream.point finds the target or not; when not and another attempt
\* is left: sleep(delay_ms / 1000), last_screenshot = None
RsPoint(found) ==
    /\ rsPc = "point"
    /\ IF found
       THEN /\ rsTrace' = Append(rsTrace, "point_found")
            /\ rsPc' = "returned"
            /\ rsResult' = "coords"
            /\ UNCHANGED <<rsLast, rsAttempt>>
       ELSE /\ rsTrace' = Append(rsTrace, "point_none") \o
                          (IF TriesAgain(rsAttempt, Attempts(rsRetries))
                           THEN <<"sleep">> ELSE <<>>)
            /\ rsLast' = IF TriesAgain(rsAttempt, Attempts(rsRetries))
                         THEN FALSE ELSE rsLast
            /\ rsAttempt' = rsAttempt + 1
            /\ IF rsAttempt + 1 < Attempts(rsRetries)
               THEN rsPc' = "ensure" /\ UNCHANGED rsResult
               ELSE rsPc' = "returned" /\ rsResult' = "None"
    /\ UNCHANGED <<rsXY, rsTarget, rsRetries>>
    /\ UNCHANGED notRs

\* moondream.point raises
RsPointRaises ==
    /\ rsPc = "point"
    /\ rsPc' = "raised"
    /\ UNCHANGED <<rsXY, rsTarget, rsRetries, rsLast, rsAttempt, rsTrace,
                   rsResult>>
    /\ UNCHANGED notRs

NextRs ==
    \/ RsStart
    \/ \E ok \in BOOLEAN : RsEnsure(ok)
    \/ \E found \in BOOLEAN : RsPoint(found)
    \/ RsPointRaises

(***************************************************************************)
(* openai-computer-use: _translate_cua_action and                          *)
(* KernelComputer.batch_actions (computers/kernel_computer.py)             *)
(***************************************************************************)
\* action types of the batch tool's enum, and two outside of it: a type the
\* standard computer tool has, and a missing type (action.get("type", ""))
CuaTypes ==
    {"click", "double_click", "type", "keypress", "scroll", "move", "drag",
     "wait", "screenshot", ""}

\* action.get("button"): "none" stands for an absent button
CuaButtons == {"none", "left", "right", "back", "forward", "wheel"}

\* the actions a batch is made of
CuaActions ==
    {a \in [type : CuaTypes, button : CuaButtons] :
        a.type # "click" => a.button = "none"}

\* _normalize_button for None and for strings
NormalizeButton(button) == IF button = "none" THEN "left" ELSE button

\* _translate_cua_action: the Kernel action, or type "ValueError" for the raise
TranslateCuaAction(action) ==
    CASE action.type = "click" ->
            (CASE action.button = "back" ->
                    [type |-> "press_key", arg |-> "Alt_L+Left"]
               [] action.button = "forward" ->
                    [type |-> "press_key", arg |-> "Alt_L+Right"]
               [] action.button = "wheel" ->
                    [type |-> "scroll", arg |-> "delta 0 0"]
               [] OTHER ->
                    [type |-> "click_mouse",
                     arg |-> NormalizeButton(action.button)])
      [] action.type = "double_click" ->
            [type |-> "click_mouse", arg |-> "num_clicks 2"]
      [] action.type = "type" -> [type |-> "type_text", arg |-> "text"]
      [] action.type = "keypress" -> [type |-> "press_key", arg |-> "keys"]
      [] action.type = "scroll" -> [type |-> "scroll", arg |-> "delta"]
      [] action.type = "move" -> [type |-> "move_mouse", arg |-> "x y"]
      [] action.type = "drag" -> [type |-> "drag_mouse", arg |-> "path"]
      [] action.type = "wait" -> [type |-> "sleep", arg |-> "duration_ms"]
      [] OTHER -> [type |-> "ValueError", arg |-> action.type]

\* translated = [...] is complete before browsers.computer.batch is called
BatchReady_Early(translated, actions) == TRUE
BatchReady(translated, actions) == Len(translated) = Len(actions)

IdleBa ==
    /\ baActions = <<>>
    /\ baPc = "off"
    /\ baTranslated = <<>>
    /\ baCalls = <<>>
    /\ baError = "none"

\* a call of batch_actions
InitBa ==
    /\ baActions \in UNION {[1..n -> CuaActions] : n \in 0..MaxBatch}
    /\ baPc = "translate"
    /\ baTranslated = <<>>
    /\ baCalls = <<>>
    /\ baError = "none"

\* one item of the list comprehension, in list order
BaTranslate ==
    /\ baPc = "translate"
    /\ Len(baTranslated) < Len(baActions)
    /\ LET t == TranslateCuaAction(baActions[Len(baTranslated) + 1])
       IN  IF t.type = "ValueError"
           THEN /\ baPc' = "raised"
                /\ baError' = "ValueError"
                /\ UNCHANGED baTranslated
           ELSE /\ baTranslated' = Append(baTranslated, t)
                /\ UNCHANGED <<baPc, baError>>
    /\ UNCHANGED <<baActions, baCalls>>
    /\ UNCHANGED notBa

\* self.client.browsers.computer.batch(self.session_id, actions=translated)
BaBatch(ok) ==
    /\ baPc = "translate"
    /\ BatchReady(baTranslated, baActions)
    /\ baCalls' = Append(baCalls, baTranslated)
    /\ baPc' = IF ok THEN "returned" ELSE "raised"
    /\ baError' = IF ok THEN "none" ELSE "remote"
    /\ UNCHANGED <<baActions, baTranslated>>
    /\ UNCHANGED notBa

NextBa ==
    \/ BaTranslate
    \/ \E ok \in BOOLEAN : BaBatch(ok)

(***************************************************************************)
(* eval-protocol: KernelBrowserAdapter.start_heartbeat_sync,               *)
(* stop_heartbeat_sync and BrowserHeartbeat (core/browser.py)              *)
(***************************************************************************)
Heartbeats == 1..MaxHeartbeats

\* max_retries = 5
HeartbeatMaxRetries == 5

\* Thread.is_alive(): started and not yet finished
IsAlive(pc) == pc \notin {"none", "done"}

\* the awaits of the heartbeat thread that take time: the stagger sleep (up
\* to 3 s), the connect (up to 10 s), recv (up to 5 s), the backoff (up to
\* 8 s) and the interval sleep.  join(timeout=2.0) can time out in them.
Blocked(pc) ==
    pc \in {"stagger", "connecting", "first_recv", "backoff", "sleep", "recv"}

IdleHb ==
    /\ hbInterval = FALSE
    /\ hbUrl = FALSE
    /\ hbHeartbeat = 0
    /\ hbCreated = 0
    /\ hbCaller = "off"
    /\ hbPc = [h \in Heartbeats |-> "none"]
    /\ hbAttempt = [h \in Heartbeats |-> 0]
    /\ hbStopped = [h \in Heartbeats |-> FALSE]
    /\ hbStopDone = [h \in Heartbeats |-> FALSE]
    /\ hbLate = FALSE

\* a new adapter: self._heartbeat = None
InitHb ==
    /\ hbInterval \in BOOLEAN
    /\ hbUrl \in BOOLEAN
    /\ hbHeartbeat = 0
    /\ hbCreated = 0
    /\ hbCaller = "idle"
    /\ hbPc = [h \in Heartbeats |-> "none"]
    /\ hbAttempt = [h \in Heartbeats |-> 0]
    /\ hbStopped = [h \in Heartbeats |-> FALSE]
    /\ hbStopDone = [h \in Heartbeats |-> FALSE]
    /\ hbLate = FALSE

\* start_heartbeat_sync: nothing without interval or url, nothing while
\* _heartbeat is set; else a new BrowserHeartbeat and start_sync, whose
\* _thread is None, so a thread is made and started
HbStartSync ==
    /\ hbCaller = "idle"
    /\ hbCreated < MaxHeartbeats
    /\ IF hbInterval /\ hbUrl /\ hbHeartbeat = 0
       THEN /\ hbCreated' = hbCreated + 1
            /\ hbHeartbeat' = hbCreated + 1
            /\ hbPc' = [hbPc EXCEPT ![hbCreated + 1] = "stagger"]
       ELSE UNCHANGED <<hbCreated, hbHeartbeat, hbPc>>
    /\ UNCHANGED <<hbInterval, hbUrl, hbCaller, hbAttempt, hbStopped,
                   hbStopDone, hbLate>>
    /\ UNCHANGED notHb

\* stop_heartbeat_sync with _heartbeat set: stop_sync sets _stopped and
\* joins the thread
HbStopSync ==
    /\ hbCaller = "idle"
    /\ hbHeartbeat # 0
    /\ hbStopped' = [hbStopped EXCEPT ![hbHeartbeat] = TRUE]
    /\ hbCaller' = "joining"
    /\ UNCHANGED <<hbInterval, hbUrl, hbHeartbeat, hbCreated, hbPc, hbAttempt,
                   hbStopDone, hbLate>>
    /\ UNCHANGED notHb

\* join(timeout=2.0) returns, the thread finished or the two seconds over;
\* then _thread = None, and _heartbeat = None in stop_heartbeat_sync
JoinReturns ==
    /\ hbCaller = "joining"
    /\ ~IsAlive(hbPc[hbHeartbeat]) \/ Blocked(hbPc[hbHeartbeat])
    /\ hbStopDone' = [hbStopDone EXCEPT ![hbHeartbeat] = TRUE]
    /\ hbHeartbeat' = 0
    /\ hbCaller' = "idle"
    /\ UNCHANGED <<hbInterval, hbUrl, hbCreated, hbPc, hbAttempt, hbStopped,
                   hbLate>>
    /\ UNCHANGED notHb

\* what a step of the thread of h leaves alone
HbThreadFrame ==
    /\ UNCHANGED <<hbInterval, hbUrl, hbHeartbeat, hbCreated, hbCaller,
                   hbStopped, hbStopDone>>
    /\ UNCHANGED notHb

\* await asyncio.sleep(stagger) is over
HbStagger(h) ==
    /\ hbPc[h] = "stagger"
    /\ hbPc' = [hbPc EXCEPT ![h] = "check"]
    /\ UNCHANGED <<hbAttempt, hbLate>>
    /\ HbThreadFrame

\* top of the connect loop: if self._stopped.is_set(): return
HbCheck(h) ==
    /\ hbPc[h] = "check"
    /\ hbPc' = [hbPc EXCEPT ![h] = IF hbStopped[h] THEN "done"
                                   ELSE "connecting"]
    /\ UNCHANGED <<hbAttempt, hbLate>>
    /\ HbThreadFrame

\* websockets.connect under wait_for: a socket, or TimeoutError/Exception
HbConnect(h, connected) ==
    /\ hbPc[h] = "connecting"
    /\ hbPc' = [hbPc EXCEPT ![h] = IF connected THEN "first_send"
                                   ELSE "after"]
    /\ UNCHANGED <<hbAttempt, hbLate>>
    /\ HbThreadFrame

\* the first _send_heartbeat, after the connect: ws.send puts the command
\* on the socket or raises (False: ws.close() and ws = None)
HbFirstSend(h, sent) ==
    /\ hbPc[h] = "first_send"
    /\ hbLate' = (hbLate \/ (sent /\ hbStopDone[h]))
    /\ hbPc' = [hbPc EXCEPT ![h] = IF sent THEN "first_recv" ELSE "after"]
    /\ UNCHANGED hbAttempt
    /\ HbThreadFrame

\* wait_for(ws.recv(), timeout=5): break on the answer, else False
HbFirstRecv(h, answered) ==
    /\ hbPc[h] = "first_recv"
    /\ hbPc' = [hbPc EXCEPT ![h] = IF answered THEN "loop" ELSE "after"]
    /\ UNCHANGED <<hbAttempt, hbLate>>
    /\ HbThreadFrame

\* end of an attempt without a socket: backoff when attempts are left, else
\* the loop is over and ws is None: return
HbAfterAttempt(h) ==
    /\ hbPc[h] = "after"
    /\ hbPc' = [hbPc EXCEPT ![h] =
                   IF hbAttempt[h] < HeartbeatMaxRetries - 1 THEN "backoff"
                   ELSE "done"]
    /\ UNCHANGED <<hbAttempt, hbLate>>
    /\ HbThreadFrame

\* await asyncio.sleep(backoff) is over: the next attempt
HbBackoff(h) ==
    /\ hbPc[h] = "backoff"
    /\ hbAttempt' = [hbAttempt EXCEPT ![h] = hbAttempt[h] + 1]
    /\ hbPc' = [hbPc EXCEPT ![h] = "check"]
    /\ UNCHANGED hbLate
    /\ HbThreadFrame

\* while not self._stopped.is_set(): sleep; else finally ws.close()
HbLoop(h) ==
    /\ hbPc[h] = "loop"
    /\ hbPc' = [hbPc EXCEPT ![h] = IF hbStopped[h] THEN "done" ELSE "sleep"]
    /\ UNCHANGED <<hbAttempt, hbLate>>
    /\ HbThreadFrame

\* await asyncio.sleep(self.interval) is over
HbSleep(h) ==
    /\ hbPc[h] = "sleep"
    /\ hbPc' = [hbPc EXCEPT ![h] = "woke"]
    /\ UNCHANGED <<hbAttempt, hbLate>>
    /\ HbThreadFrame

\* if self._stopped.is_set(): break
HbWoke(h) ==
    /\ hbPc[h] = "woke"
    /\ hbPc' = [hbPc EXCEPT ![h] = IF hbStopped[h] THEN "done" ELSE "send"]
    /\ UNCHANGED <<hbAttempt, hbLate>>
    /\ HbThreadFrame

\* result = await self._send_heartbeat(ws): ws.send
HbSend(h, sent) ==
    /\ hbPc[h] = "send"
    /\ hbLate' = (hbLate \/ (sent /\ hbStopDone[h]))
    /\ hbPc' = [hbPc EXCEPT ![h] = IF sent THEN "recv" ELSE "done"]
    /\ UNCHANGED hbAttempt
    /\ HbThreadFrame

\* wait_for(ws.recv(), timeout=5); if not result: break
HbRecv(h, answered) ==
    /\ hbPc[h] = "recv"
    /\ hbPc' = [hbPc EXCEPT ![h] = IF answered THEN "loop" ELSE "done"]
    /\ UNCHANGED <<hbAttempt, hbLate>>
    /\ HbThreadFrame

NextHb ==
    \/ HbStartSync
    \/ HbStopSync
    \/ JoinReturns
    \/ \E h \in Heartbeats : HbStagger(h)
    \/ \E h \in Heartbeats : HbCheck(h)
    \/ \E h \in Heartbeats, connected \in BOOLEAN : HbConnect(h, connected)
    \/ \E h \in Heartbeats, sent \in BOOLEAN : HbFirstSend(h, sent)
    \/ \E h \in Heartbeats, answered \in BOOLEAN : HbFirstRecv(h, answered)
    \/ \E h \in Heartbeats : HbAfterAttempt(h)
    \/ \E h \in Heartbeats : HbBackoff(h)
    \/ \E h \in Heartbeats : HbLoop(h)
    \/ \E h \in Heartbeats : HbSleep(h)
    \/ \E h \in Heartbeats : HbWoke(h)
    \/ \E h \in Heartbeats, sent \in BOOLEAN : HbSend(h, sent)
    \/ \E h \in Heartbeats, answered \in BOOLEAN : HbRecv(h, answered)

(***************************************************************************)
(* Specifications                                                          *)
(***************************************************************************)
vars == <<poolVars, navVars, llmVars, raVars, gemVars, oaiVars, exVars, mapVars, rtVars, ceVars, keyVars, anVars, ksVars, epVars, ylVars, mkVars, rsVars, baVars, hbVars>>

InitSpecPool == InitPool /\ IdleNav /\ IdleLlm /\ IdleRa /\ IdleGem /\ IdleOai /\ IdleEx /\ IdleMap /\ IdleRt /\ IdleCe /\ IdleKey /\ IdleAn /\ IdleKs /\ IdleEp /\ IdleYl /\ IdleMk /\ IdleRs /\ IdleBa /\ IdleHb

SpecPool == InitSpecPool /\ [][NextPool]_vars

InitSpecNav == IdlePool /\ InitNav /\ IdleLlm /\ IdleRa /\ IdleGem /\ IdleOai /\ IdleEx /\ IdleMap /\ IdleRt /\ IdleCe /\ IdleKey /\ IdleAn /\ IdleKs /\ IdleEp /\ IdleYl /\ IdleMk /\ IdleRs /\ IdleBa /\ IdleHb

SpecNav == InitSpecNav /\ [][NextNav]_vars

InitSpecLlm == IdlePool /\ IdleNav /\ InitLlm /\ IdleRa /\ IdleGem /\ IdleOai /\ IdleEx /\ IdleMap /\ IdleRt /\ IdleCe /\ IdleKey /\ IdleAn /\ IdleKs /\ IdleEp /\ IdleYl /\ IdleMk /\ IdleRs /\ IdleBa /\ IdleHb

SpecLlm == InitSpecLlm /\ [][NextLlm]_vars

InitSpecRa == IdlePool /\ IdleNav /\ IdleLlm /\ InitRa /\ IdleGem /\ IdleOai /\ IdleEx /\ IdleMap /\ IdleRt /\ IdleCe /\ IdleKey /\ IdleAn /\ IdleKs /\ IdleEp /\ IdleYl /\ IdleMk /\ IdleRs /\ IdleBa /\ IdleHb

SpecRa == InitSpecRa /\ [][NextRa]_vars

InitSpecGem == IdlePool /\ IdleNav /\ IdleLlm /\ IdleRa /\ InitGem /\ IdleOai /\ IdleEx /\ IdleMap /\ IdleRt /\ IdleCe /\ IdleKey /\ IdleAn /\ IdleKs /\ IdleEp /\ IdleYl /\ IdleMk /\ IdleRs /\ IdleBa /\ IdleHb

SpecGem == InitSpecGem /\ [][NextGem]_vars

\* The sampling loops, one of them running: run_llm_agent or the Gemini
\* sampling_loop.  Every step of a running loop is eventually taken (its
\* awaits complete).
InitSpecLoops ==
    /\ IdlePool /\ IdleNav /\ IdleRa /\ IdleOai /\ IdleEx /\ IdleMap /\ IdleRt /\ IdleCe /\ IdleKey /\ IdleAn /\ IdleKs /\ IdleEp /\ IdleYl /\ IdleMk /\ IdleRs /\ IdleBa /\ IdleHb
    /\ \/ InitLlm /\ IdleGem
       \/ IdleLlm /\ InitGemLoop

NextLoops == NextLlm \/ NextGemLoop

\* Agent.run_full_turn; every step of the turn is eventually taken.
InitSpecOai ==
    IdlePool /\ IdleNav /\ IdleLlm /\ IdleRa /\ IdleGem /\ InitOai /\ IdleEx /\ IdleMap /\ IdleRt /\ IdleCe /\ IdleKey /\ IdleAn /\ IdleKs /\ IdleEp /\ IdleYl /\ IdleMk /\ IdleRs /\ IdleBa /\ IdleHb

InitSpecEx ==
    IdlePool /\ IdleNav /\ IdleLlm /\ IdleRa /\ IdleGem /\ IdleOai /\ InitEx /\ IdleMap /\ IdleRt /\ IdleCe /\ IdleKey /\ IdleAn /\ IdleKs /\ IdleEp /\ IdleYl /\ IdleMk /\ IdleRs /\ IdleBa /\ IdleHb

SpecEx == InitSpecEx /\ [][NextEx]_vars

SpecOai == InitSpecOai /\ [][NextOai]_vars /\ WF_vars(NextOai)

SpecLoops == InitSpecLoops /\ [][NextLoops]_vars /\ WF_vars(NextLoops)

\* one click, its coordinates mapped to the viewport
InitSpecMap ==
    IdlePool /\ IdleNav /\ IdleLlm /\ IdleRa /\ IdleGem /\ IdleOai /\ IdleEx /\ InitMap /\ IdleRt /\ IdleCe /\ IdleKey /\ IdleAn /\ IdleKs /\ IdleEp /\ IdleYl /\ IdleMk /\ IdleRs /\ IdleBa /\ IdleHb

SpecMap == InitSpecMap /\ [][NextMap]_vars

\* a pixel coordinate converted to the 0-999 scale and back
InitSpecRt ==
    IdlePool /\ IdleNav /\ IdleLlm /\ IdleRa /\ IdleGem /\ IdleOai /\ IdleEx /\ IdleMap /\ InitRt /\ IdleCe /\ IdleKey /\ IdleAn /\ IdleKs /\ IdleEp /\ IdleYl /\ IdleMk /\ IdleRs /\ IdleBa /\ IdleHb

SpecRt == InitSpecRt /\ [][NextRt]_vars

\* one call of _coerce_coords or normalize_point
InitSpecCe ==
    IdlePool /\ IdleNav /\ IdleLlm /\ IdleRa /\ IdleGem /\ IdleOai /\ IdleEx /\ IdleMap /\ IdleRt /\ InitCe /\ IdleKey /\ IdleAn /\ IdleKs /\ IdleEp /\ IdleYl /\ IdleMk /\ IdleRs /\ IdleBa /\ IdleHb

SpecCe == InitSpecCe /\ [][NextCe]_vars

\* one key action through a key-name normalizer
InitSpecKey ==
    IdlePool /\ IdleNav /\ IdleLlm /\ IdleRa /\ IdleGem /\ IdleOai /\ IdleEx /\ IdleMap /\ IdleRt /\ IdleCe /\ InitKey /\ IdleAn /\ IdleKs /\ IdleEp /\ IdleYl /\ IdleMk /\ IdleRs /\ IdleBa /\ IdleHb

SpecKey == InitSpecKey /\ [][NextKey]_vars

\* one call of the anthropic computer tool
InitSpecAn ==
    IdlePool /\ IdleNav /\ IdleLlm /\ IdleRa /\ IdleGem /\ IdleOai /\ IdleEx /\ IdleMap /\ IdleRt /\ IdleCe /\ IdleKey /\ InitAn /\ IdleKs /\ IdleEp /\ IdleYl /\ IdleMk /\ IdleRs /\ IdleBa /\ IdleHb

SpecAn == InitSpecAn /\ [][NextAn]_vars

\* one use of a KernelBrowserSession as a context manager
InitSpecKs ==
    IdlePool /\ IdleNav /\ IdleLlm /\ IdleRa /\ IdleGem /\ IdleOai /\ IdleEx /\ IdleMap /\ IdleRt /\ IdleCe /\ IdleKey /\ IdleAn /\ InitKs /\ IdleEp /\ IdleYl /\ IdleMk /\ IdleRs /\ IdleBa /\ IdleHb

SpecKs == InitSpecKs /\ [][NextKs]_vars

\* one invocation of an entry point that creates its own browser
InitSpecEp ==
    IdlePool /\ IdleNav /\ IdleLlm /\ IdleRa /\ IdleGem /\ IdleOai /\ IdleEx /\ IdleMap /\ IdleRt /\ IdleCe /\ IdleKey /\ IdleAn /\ IdleKs /\ InitEp /\ IdleYl /\ IdleMk /\ IdleRs /\ IdleBa /\ IdleHb

SpecEp == InitSpecEp /\ [][NextEp]_vars

\* one call of the Yutori sampling_loop
InitSpecYl ==
    IdlePool /\ IdleNav /\ IdleLlm /\ IdleRa /\ IdleGem /\ IdleOai /\ IdleEx /\ IdleMap /\ IdleRt /\ IdleCe /\ IdleKey /\ IdleAn /\ IdleKs /\ IdleEp /\ InitYl /\ IdleMk /\ IdleRs /\ IdleBa /\ IdleHb

SpecYl == InitSpecYl /\ [][NextYl]_vars

\* one click action of the anthropic computer tool
InitSpecMk ==
    IdlePool /\ IdleNav /\ IdleLlm /\ IdleRa /\ IdleGem /\ IdleOai /\ IdleEx /\ IdleMap /\ IdleRt /\ IdleCe /\ IdleKey /\ IdleAn /\ IdleKs /\ IdleEp /\ IdleYl /\ InitMk /\ IdleRs /\ IdleBa /\ IdleHb

SpecMk == InitSpecMk /\ [][NextMk]_vars

\* one call of _resolve_target_coords
InitSpecRs ==
    IdlePool /\ IdleNav /\ IdleLlm /\ IdleRa /\ IdleGem /\ IdleOai /\ IdleEx /\ IdleMap /\ IdleRt /\ IdleCe /\ IdleKey /\ IdleAn /\ IdleKs /\ IdleEp /\ IdleYl /\ IdleMk /\ InitRs /\ IdleBa /\ IdleHb

SpecRs == InitSpecRs /\ [][NextRs]_vars

\* one call of KernelComputer.batch_actions
InitSpecBa ==
    IdlePool /\ IdleNav /\ IdleLlm /\ IdleRa /\ IdleGem /\ IdleOai /\ IdleEx /\ IdleMap /\ IdleRt /\ IdleCe /\ IdleKey /\ IdleAn /\ IdleKs /\ IdleEp /\ IdleYl /\ IdleMk /\ IdleRs /\ InitBa /\ IdleHb

SpecBa == InitSpecBa /\ [][NextBa]_vars

\* one adapter, its caller thread and its heartbeat threads
InitSpecHb ==
    IdlePool /\ IdleNav /\ IdleLlm /\ IdleRa /\ IdleGem /\ IdleOai /\ IdleEx /\ IdleMap /\ IdleRt /\ IdleCe /\ IdleKey /\ IdleAn /\ IdleKs /\ IdleEp /\ IdleYl /\ IdleMk /\ IdleRs /\ IdleBa /\ InitHb

SpecHb == InitSpecHb /\ [][NextHb]_vars

(***************************************************************************)
(* Claims about acquired_browser and run_task (SpecPool)                   *)
(***************************************************************************)

\* The with-block of acquired_browser has been left, on whatever path.
RolloutExited(t) == tpc[t] \in {"score", "except", "cancelled", "leave", "done"}

\* C1: whenever the body run with the acquired browser raises an exception,
\* by the time the exception has been re-raised to the caller the heartbeat
\* is stopped and the pool release has been called exactly once for that
\* session, with reuse=False.
C1_ExceptionReleasesOnceNoReuse ==
    \A t \in Tasks :
        texit[t] = "exception" =>
            /\ releaseCalls[t] = <<FALSE>>
            /\ ~heartbeat[t]
            /\ ~held[t]

\* C1 witness: a body that started the heartbeat on a cleanly reset browser
\* raised, and the exception has reached run_task's handler.
C1_Witness ==
    \E t \in Tasks :
        /\ texit[t] = "exception"
        /\ tpc[t] = "except"
        /\ hbStarted[t]
        /\ ~shouldNotReuse[t]

\* C2: every browser acquired from the pool is released exactly once on
\* every exit path of its rollout (return, exception, cancellation
\* mid-rollout, failure of the adapter initialisation after acquisition).
C2_ReleasedExactlyOnceOnEveryExit ==
    \A t \in Tasks :
        (acquired[t] /\ RolloutExited(t)) => Len(releaseCalls[t]) = 1

(***************************************************************************)
(* Claims about navigate and the rollout (SpecNav)                         *)
(***************************************************************************)
IsFailure(o) == o \in ErrMsgs

\* C7: when every attempt fails navigate makes exactly max_retries attempts,
\* sleeps 0.5*2^k s after the k-th failed attempt (k = 0, 1, ...) and not
\* after the final one, so that the backoffs strictly increase; it stops at
\* the first successful attempt; and it raises its error only after the
\* final attempt, carrying the last failure's message.
C7_NavigateRetryPolicy ==
    /\ \A i \in 1..Len(navOutcomes) :
           navOutcomes[i] = "ok" => (i = Len(navOutcomes) /\ navPc \in {"returned", "sdk_error"})
    /\ \A i \in 1..Len(navOutcomes) :
           i < Len(navOutcomes) => IsFailure(navOutcomes[i])
    /\ Len(navOutcomes) <= navMax
    /\ \A k \in 1..Len(navSleeps) : navSleeps[k] = BaseBackoffMs * (2 ^ (k - 1))
    /\ \A k \in 1..Len(navSleeps) : k > 1 => navSleeps[k] > navSleeps[k - 1]
    /\ navPc = "attempt" => Len(navSleeps) = Len(navOutcomes)
    /\ navPc = "returned" => Len(navSleeps) = Len(navOutcomes) - 1
    /\ navPc = "raised" =>
           /\ Len(navOutcomes) = navMax
           /\ \A i \in 1..navMax : IsFailure(navOutcomes[i])
           /\ Len(navSleeps) = navMax - 1
           /\ navRaisedMsg = navOutcomes[navMax]
    /\ navRaisedMsg # "none" => navPc = "raised"

\* C7 witness: the default three attempts all failed with differing
\* messages and navigate raised after two backoffs.
C7_Witness ==
    /\ navPc = "raised"
    /\ navMax = DefaultMaxRetries
    /\ Len(navSleeps) = 2
    /\ navOutcomes[1] # navOutcomes[navMax]

\* C8: when a navigation fails on every attempt, the exhaustion reaches the
\* loop as an error result folded into conversation state, not as an
\* exception propagating out of the rollout.
C8_ExhaustionIsResultNotException ==
    (navPc = "raised" /\ roPc \notin {"off", "navigate"}) =>
        /\ roPc # "raised"
        /\ callerOutcome # "exception"
        /\ \E i \in 1..Len(roMessages) : roMessages[i] = navRaisedMsg

(***************************************************************************)
(* Claims about run_llm_agent (SpecLlm)                                    *)
(***************************************************************************)
LastMessage == llmMessages[Len(llmMessages)]

PenultimateMessage == llmMessages[Len(llmMessages) - 1]

\* the loop is between two iterations, or has returned
LlmBetweenIterations == llmPc \in {"call", "returned"}

\* C3 as stated: in every iteration where the model declares completion with
\* a final_response that is empty, holds "{{" or "}}", or starts with "{"
\* without parsing to a JSON object, the loop appends one corrective user
\* message, does not return and calls the model again; no returned result
\* carries a placeholder final_response.
C3_RejectedDoneKeepsRunning ==
    /\ (llmRejected # "none" /\ LlmBetweenIterations) =>
           /\ LastMessage \in {"corrective_final", "corrective_json"}
           /\ PenultimateMessage = "batch_result"
           /\ llmPc = "call"
    /\ llmPc = "returned" => llmReturnedFinal \notin {"lbrace2", "rbrace2"}

\* C3 amended: as C3, except that in iteration max_iterations the model is
\* not called again: the loop ends and returns an empty final_response.
C3_RejectedDoneKeepsRunningUnlessCeiling ==
    /\ (llmRejected # "none" /\ LlmBetweenIterations) =>
           /\ LastMessage \in {"corrective_final", "corrective_json"}
           /\ PenultimateMessage = "batch_result"
           /\ llmPc = "returned" => (llmIter = llmMaxIter /\ llmReturnedFinal = "empty")
           /\ llmPc = "call" => llmIter <= llmMaxIter
    /\ llmPc = "returned" =>
           llmReturnedFinal \notin {"lbrace2", "rbrace2", "word", "badjson"}
    /\ (llmPc = "returned" /\ llmReturnedFinal = "empty") => llmIter = llmMaxIter

\* C3 witness: a done declaration with a "}}" placeholder was rejected in an
\* iteration below the ceiling and the loop is about to call the model again.
C3_Witness ==
    /\ llmRejected = "rbrace2"
    /\ llmPc = "call"
    /\ llmIter = 2
    /\ LastMessage = "corrective_final"

\* C9: when parsing a model response fails, exactly one corrective
\* instruction is appended and the model is called exactly once more in that
\* iteration; a second failure ends the loop as Failed, with a result (no
\* exception, no further iteration).
C9_ParseFailureRetriedOnce ==
    llmParseFailed =>
        /\ llmCalls = 2
        /\ LastMessage = "corrective_invalid"
        /\ llmPc = "returned"
        /\ llmError # "none"

\* C10: a successfully started loop always hands a result object back: a
\* response without a JSON object, or a failing model call, never escapes
\* the loop as a bare exception.
C10_LoopNeverRaises == llmPc # "raised"

\* C11: when a batch contains a fail action, the loop reaches Failed in that
\* same iteration: the actions after it in the batch are not executed, no
\* further model call is made, and the returned result carries the failure
\* reason.
C11_FailActionEndsLoop ==
    llmStopKind = "fail" =>
        /\ llmPc \in {"batch", "returned"}
        /\ llmPc = "batch" => llmIdx = llmStopAt
        /\ llmPc = "returned" => llmError = "fail"

\* C12: when an unrecoverable exception occurs in the middle of a batch
\* (unknown action name, missing required argument, executor or vision
\* exception), the loop goes to Failed: no later action of that batch is
\* executed and no further model call is made.
C12_BatchExceptionEndsLoop ==
    llmStopKind = "bad" =>
        /\ llmPc \in {"batch", "returned"}
        /\ llmPc = "batch" => llmIdx = llmStopAt

FoldedResults ==
    IF \E i \in 1..Len(llmMessages) : llmMessages[i] = "batch_result"
    THEN llmResults
    ELSE 0

\* C17: no action is dispatched to the executor before the result (success
\* or error) of the previous action of the same batch has been appended to
\* the conversation state; one action and one model call at a time.
C17_ResultFoldedBeforeNextDispatch ==
    /\ (llmPc = "batch" /\ llmIdx >= 2) => FoldedResults >= llmIdx - 1
    /\ llmPc = "batch" => llmIdx <= llmBatchLen

(***************************************************************************)
(* Claims about the sampling loops together (SpecLoops)                    *)
(***************************************************************************)
\* a loop has left its iteration loop: it returned, or an exception left it
LoopTerminal == llmPc \in {"returned", "raised"} \/ gemPc = "done"

\* C14: each sampling loop performs at most max_iterations iterations and
\* always terminates, even if the model never stops and every response is a
\* malformed function call or an empty batch.
C14_LoopsTerminateWithinCeiling ==
    /\ [](llmIter <= llmMaxIter /\ gemIter <= gemMaxIter)
    /\ <>LoopTerminal

\* C14 witness: the Gemini loop ended at the ceiling after nothing but
\* malformed function calls.
C14_Witness ==
    /\ gemPc = "done"
    /\ gemMaxIter = MaxGemIter
    /\ gemIter = gemMaxIter
    /\ Len(gemContents) = 1 + gemMaxIter
    /\ \A i \in 2..Len(gemContents) : gemContents[i] = ModelMessage(<<>>)

\* C15: reaching the iteration ceiling is a terminal outcome of its own:
\* from the value the loop returns (final_response and iterations), the
\* caller can tell MaxIterationsReached apart from Failed and from Done.
\* Every run that ends at the ceiling returns final_response "" and
\* iterations = max_iterations, so no other run may return that value.
C15_CeilingTellsApartFromReturnValue ==
    (gemPc = "done" /\ gemMaxIter > 0) =>
        (gemOutcome = "ceiling" <=>
            (gemFinal = "empty" /\ gemIter = gemMaxIter))

(***************************************************************************)
(* Claims about Agent.run_full_turn (SpecOai)                              *)
(***************************************************************************)
\* C16: the turn loop of the OpenAI agent is bounded by a max-iteration
\* count: it makes a bounded number of model calls and terminates even when
\* the model keeps returning tool calls and never an assistant message.
C16_TurnLoopTerminates == <>(oaiPc \in {"returned", "raised"})

\* C20: an action whose name is not in the vendor vocabulary always gives an
\* explicit failure naming the unknown action, reported back to the model or
\* the caller; it is never a silent no-op and never reported as success.
C20_UnknownActionIsExplicitFailure ==
    \A h \in 1..Len(oaiHandled) :
        oaiHandled[h].kind \in {"computer_unknown", "fn_unknown"} =>
            oaiHandled[h].output = "error"

(***************************************************************************)
(* Claims about the action executors (SpecEx)                              *)
(***************************************************************************)
\* C18: the remote action executor never raises: every exception thrown by
\* a remote browser-control call during execute (the screenshot capture
\* after the action included) is caught and returned as the error field of
\* the result.
C18_ExecutorNeverRaises ==
    /\ exPc # "raised"
    /\ (exPc = "returned" /\ exRemoteRaised) => exResult.error # "none"

\* C19: every result returned by the executor has exactly one of
\* {screenshot, error} set, never both and never neither, for every action
\* name and argument mapping.
C19_ExactlyOneOfScreenshotError ==
    exPc = "returned" => (exResult.image <=> exResult.error = "none")

(***************************************************************************)
(* Claims about run_agent (SpecRa)                                         *)
(***************************************************************************)
\* C4: the actions of one batch are executed strictly in list order, one at
\* a time, and the target resolution of an action uses the screen state
\* produced after the action before it completed, never an older one.
C4_OrderedAndResolvedOnCurrentScreen ==
    /\ \A i, j \in 1..Len(raCalls) : i < j => raCalls[i] < raCalls[j]
    /\ \A r \in 1..Len(raResolutions) :
           raResolutions[r].used = raResolutions[r].screen

\* the steps that carry a validation error
ValidationErrorKinds == {"unknown", "type_no_text", "missing"}

\* some remote call (execute_action, capture_screenshot, moondream.point)
\* was made for step i
RemoteCallFor(i) ==
    \/ \E c \in 1..Len(raCalls) : raCalls[c] = i
    \/ \E r \in 1..Len(raResolutions) : raResolutions[r].step = i

\* C26: run_agent rejects a step with a validation error (missing action,
\* missing required argument, unknown action) before any remote call and
\* records it as exactly one failed StepLog; with strict=False the steps
\* after it are still executed, with strict=True no step after it is.
C26_ValidationErrorRejectedBeforeRemoteCall ==
    /\ Len(raLogs) = (IF raPc = "off" THEN 0 ELSE raIdx - 1)
    /\ \A i \in 1..Len(raLogs) :
           raSteps[i] \in ValidationErrorKinds =>
               /\ ~RemoteCallFor(i)
               /\ raLogs[i] = "failed"
               /\ raStrict => (raPc = "done" /\ raIdx = i + 1)
    /\ (raPc = "done" /\ ~raStrict) => raIdx = Len(raSteps) + 1


(***************************************************************************)
(* Claims about _prune_old_screenshots (SpecGem)                           *)
(***************************************************************************)
\* a message carries an image payload
CarriesImage(m) == \E k \in 1..Len(m.parts) : m.parts[k].image

\* the user turns of history h, after position i, that carry a screenshot
LaterScreenshotTurns(h, i) ==
    {j \in (i + 1)..Len(h) : h[j].role = "user" /\ CarriesImage(h[j])}

ScreenshotTurns(h) == LaterScreenshotTurns(h, 0)

\* C5: with N = 3, counting the screenshot-bearing user turns from the most
\* recent to the oldest, the 3 most recent keep their screenshots and every
\* older one has its screenshot removed (of 5 such turns exactly the oldest
\* 2 lose their image), so after each loop iteration at most 3 turns of the
\* history carry a screenshot.
C5_KeepsThreeMostRecentScreenshotTurns ==
    /\ gemPruned =>
         /\ Len(gemContents) = Len(gemBefore)
         /\ \A i \in ScreenshotTurns(gemBefore) :
                IF Cardinality(LaterScreenshotTurns(gemBefore, i)) < 3
                THEN gemContents[i] = gemBefore[i]
                ELSE ~CarriesImage(gemContents[i])
         /\ Cardinality(ScreenshotTurns(gemBefore)) = 5 =>
                Cardinality(ScreenshotTurns(gemBefore)
                            \ ScreenshotTurns(gemContents)) = 2
    /\ gemMaxIter > 0 => Cardinality(ScreenshotTurns(gemContents)) <= 3

C5_Witness ==
    /\ gemPruned
    /\ Cardinality(ScreenshotTurns(gemBefore)) = 5
    /\ ScreenshotTurns(gemBefore) \ ScreenshotTurns(gemContents) = {1, 2}

\* C6: pruning changes nothing but image payloads: the number of messages,
\* their order and roles, every text part, every function-response name and
\* response data, and all messages without screenshots are the same before
\* and after _prune_old_screenshots.
C6_PruningChangesOnlyImages ==
    gemPruned =>
      /\ Len(gemContents) = Len(gemBefore)
      /\ \A i \in 1..Len(gemBefore) :
            /\ gemContents[i].role = gemBefore[i].role
            /\ Len(gemContents[i].parts) = Len(gemBefore[i].parts)
            /\ \A k \in 1..Len(gemBefore[i].parts) :
                  /\ gemContents[i].parts[k].kind = gemBefore[i].parts[k].kind
                  /\ gemContents[i].parts[k].name = gemBefore[i].parts[k].name
                  /\ gemContents[i].parts[k].response =
                         gemBefore[i].parts[k].response
                  /\ gemBefore[i].parts[k].kind # "function_response" =>
                         gemContents[i].parts[k] = gemBefore[i].parts[k]
            /\ ~CarriesImage(gemBefore[i]) => gemContents[i] = gemBefore[i]

C6_Witness ==
    /\ gemPruned
    /\ gemContents # gemBefore
    /\ \E i \in 1..Len(gemBefore) :
          /\ Len(gemBefore[i].parts) = 2
          /\ CarriesImage(gemBefore[i])
          /\ ~CarriesImage(gemContents[i])

\* what the screenshot pruning may do to one message of the history: the
\* role and the number of parts stay, and a part either stays as it is or
\* loses its image and nothing else
PrunedOrSame(old, new) ==
    /\ new.role = old.role
    /\ Len(new.parts) = Len(old.parts)
    /\ \A k \in 1..Len(old.parts) :
          \/ new.parts[k] = old.parts[k]
          \/ /\ old.parts[k].image
             /\ new.parts[k] = [old.parts[k] EXCEPT !.image = FALSE]

MapViewport == IF mapTool = "gemini" THEN DEFAULT_SCREEN_SIZE ELSE YutoriViewport

\* C21: every coordinate passed to a remote mouse call lies inside
\* [0, width) x [0, height) of the viewport; a click whose mapped coordinate
\* falls outside fails validation and makes no remote call.
C21_RemoteCoordinatesInsideViewport ==
    mapPc = "called" =>
        /\ mapCall[1] >= 0 /\ mapCall[1] < MapViewport.width
        /\ mapCall[2] >= 0 /\ mapCall[2] < MapViewport.height

\* C22: on the 0-999 scale, for every pixel p in [0, extent) of the default
\* 1920x1080 viewport, normalized_to_pixel(pixel_to_normalized(p)) differs
\* from p by at most 1.
C22_RoundTripWithinOne ==
    rtPc = "back" => (rtBack - rtPixel <= 1 /\ rtPixel - rtBack <= 1)

\* the value-by-value policy: unit interval, else fixed scale, else pixel
ClassifiedOnItsOwn(h, extent) ==
    IF InUnit(h) THEN FromUnit(h)
    ELSE IF InScale(h) THEN FromScale(h)
    ELSE FromPixel(h, extent)

\* C23: each coordinate value with no declared space is classified on its
\* own (0..1 unit interval, else 0..N fixed scale, else raw pixel), so the
\* result for a value depends only on the value, N and the axis extent.
C23_ClassifiedValueByValue ==
    cePc = "done" =>
        ceOut = <<ClassifiedOnItsOwn(ceX, MoondreamScreenSize.width),
                  ClassifiedOnItsOwn(ceY, MoondreamScreenSize.height)>>

(***************************************************************************)
(* Claims about key names (SpecKey)                                        *)
(***************************************************************************)
\* C24: a key token that is in none of the lookup tables reaches press_key
\* with exactly the same characters and case, alone or as one part of a
\* '+' combination.
C24_UnknownKeyTokenUnchanged ==
    keyPc = "pressed" =>
        /\ Len(keyOut) = Len(keyIn)
        /\ \A i \in 1 .. Len(keyIn) :
               keyIn[i] \in UnknownTokens => keyOut[i] = keyIn[i]

(***************************************************************************)
(* Claims about the anthropic computer tool (SpecAn)                       *)
(***************************************************************************)
\* the action lacks a required argument (click/hover without x, y; drag
\* without all four coordinates; key/type without text) or carries a
\* forbidden one (text with a mouse action, coordinate with key/type)
LacksRequiredOrCarriesForbidden ==
    CASE anAction \in {"mouse_move", "left_click"} ->
             anCoordinate = "none" \/ anText
      [] anAction = "left_click_drag" ->
             anCoordinate = "none" \/ ~anStart \/ anText
      [] anAction \in {"key", "type"} -> ~anText \/ anCoordinate # "none"
      [] OTHER -> FALSE

\* C25: when an action lacks a required argument or carries a forbidden
\* one, no remote browser-control call at all is issued for it.
C25_NoRemoteCallWithoutValidArguments ==
    LacksRequiredOrCarriesForbidden => anTrace = <<>>

(***************************************************************************)
(* Claims about the evaluation fan-out and the reuse flag (SpecPool)       *)
(***************************************************************************)
\* the size asyncio.Semaphore was created with: its free permits and the
\* tasks inside "async with semaphore"
SemaphoreSize ==
    sem + Cardinality({t \in Tasks : tpc[t] \notin {"off", "wait_sem", "done"}})

\* the tasks inside the with-block of acquired_browser
Holders == {t \in Tasks : held[t] /\ tpc[t] \in {"init", "body"}}

\* C27: at every moment the number of tasks holding a pool browser is at
\* most the semaphore size pool_size, which equals the size of the
\* remote-session pool in use.
C27_FanOutBoundedByPoolSize ==
    /\ Cardinality(Holders) <= SemaphoreSize
    /\ SemaphoreSize = poolCap

\* C30: an exception-free exit of acquired_browser releases the browser
\* exactly once, with reuse=True unless the browser reset failed on this
\* adapter (then reuse=False); no browser known to be bad (failed reset,
\* or a body that raised) is released as reusable.
C30_ReuseFlagOnCleanExit ==
    \A t \in Tasks :
        /\ texit[t] = "return" => releaseCalls[t] = <<~shouldNotReuse[t]>>
        /\ \A i \in 1..Len(releaseCalls[t]) :
               releaseCalls[t][i] => (~shouldNotReuse[t] /\ texit[t] = "return")

\* C30 witness: one body returned on a browser whose reset had failed and
\* was released with reuse=False, another returned on a cleanly reset
\* browser and was released with reuse=True.
C30_Witness ==
    \E t, u \in Tasks :
        /\ texit[t] = "return" /\ shouldNotReuse[t]
        /\ releaseCalls[t] = <<FALSE>>
        /\ texit[u] = "return" /\ ~shouldNotReuse[u]
        /\ releaseCalls[u] = <<TRUE>>


(***************************************************************************)
(* Claims about the settle delay before a screenshot (SpecEx)              *)
(***************************************************************************)
\* the actions that wait or stop
WaitOrStop == {"wait", "wait_5_seconds", "stop"}

\* Every screenshot in the trace is captured after all the remote calls of
\* the action, with a delay slept right before it, and no remote call of
\* the action follows; a returned result with an image ends the trace with
\* its capture.
SettledCapture ==
    LET calls == ActionCalls(exAction) IN
    /\ \A i \in 1..Len(exTrace) :
          exTrace[i] = "capture_screenshot" =>
              /\ i > 1
              /\ exTrace[i - 1] = "sleep"
              /\ Len(exTrace) > Len(calls)
              /\ SubSeq(exTrace, 1, Len(calls)) = calls
              /\ \A j \in (Len(calls) + 1)..Len(exTrace) :
                    exTrace[j] \in {"sleep", "capture_screenshot"}
    /\ (exPc = "returned" /\ exResult.image) =>
           /\ exTrace # <<>>
           /\ exTrace[Len(exTrace)] = "capture_screenshot"

UrlNamedFields(k) ==
    IF k = "json_url" THEN {"u1"}
    ELSE IF k = "json_urls" THEN {"u1", "u2"}
    ELSE {}

\* the iteration that just ended declared completion with a JSON object
\* that names a URL while no page_info had succeeded, or a URL other than
\* the most recent page_info URL
UrlDeclarationRefused ==
    /\ LlmBetweenIterations
    /\ llmLastDecl.by \in {"done_action", "payload"}
    /\ UrlNamedFields(llmLastDecl.final) # {}
    /\ \/ llmLastPageUrl = "none"
       \/ \E u \in UrlNamedFields(llmLastDecl.final) : u # llmLastPageUrl

\* no completed result names a URL unless page_info has succeeded and every
\* URL named equals the most recent page_info URL
ReturnedUrlsAreCurrent ==
    (llmPc = "returned" /\ UrlNamedFields(llmReturnedFinal) # {}) =>
        /\ llmLastPageUrl # "none"
        /\ \A u \in UrlNamedFields(llmReturnedFinal) : u = llmLastPageUrl

\* C31 as stated: the loop never returns a completed result whose
\* final_response is a JSON object with a URL-named string field unless
\* page_info has succeeded earlier in the run and every such URL equals the
\* most recent page_info URL; otherwise it appends a corrective message and
\* keeps running.
C31_UrlGateKeepsRunning ==
    /\ ReturnedUrlsAreCurrent
    /\ UrlDeclarationRefused =>
           /\ LastMessage \in {"corrective_no_page_info",
                               "corrective_url_mismatch"}
           /\ PenultimateMessage = "batch_result"
           /\ llmPc = "call"

\* C31 amended: as C31, except that a declaration refused in iteration
\* max_iterations ends the loop, which returns an empty final_response.
C31_UrlGateKeepsRunningUnlessCeiling ==
    /\ ReturnedUrlsAreCurrent
    /\ UrlDeclarationRefused =>
           /\ LastMessage =
                  (IF llmLastPageUrl = "none" THEN "corrective_no_page_info"
                                              ELSE "corrective_url_mismatch")
           /\ PenultimateMessage = "batch_result"
           /\ llmPc = "returned" =>
                  (llmIter = llmMaxIter /\ llmReturnedFinal = "empty")
           /\ llmPc = "call" => llmIter <= llmMaxIter

\* C31 witness: after a page_info on "u2", a declaration naming "u1" was
\* refused below the ceiling and the model is about to be called again.
C31_Witness ==
    /\ UrlDeclarationRefused
    /\ llmLastPageUrl = "u2"
    /\ llmLastDecl.final = "json_url"
    /\ llmPc = "call"
    /\ LastMessage = "corrective_url_mismatch"


(***************************************************************************)
(* Claims about strict mode of run_agent (SpecRa)                          *)
(***************************************************************************)
\* C32: run_agent in strict mode stops at the first step whose StepLog
\* status is 'failed': no step is executed after a failed step, whether the
\* failure came from a raised exception or from an executor result that
\* carries an error.
C32_StrictStopsAtFirstFailedStep ==
    raStrict =>
        \A i \in 1..Len(raLogs) :
            raLogs[i] = "failed" =>
                /\ i = Len(raLogs)
                /\ raPc = "done"
                /\ \A c \in 1..Len(raCalls) : raCalls[c] <= i


(***************************************************************************)
(* Claims about the function-call protocol of the Gemini loop (SpecGem)    *)
(***************************************************************************)
\* the names of the parts of one kind in a message, in order
NamesOfKind(m, kind) ==
    LET ps == SelectSeq(m.parts, LAMBDA p : p.kind = kind)
    IN  [k \in 1..Len(ps) |-> ps[k].name]

\* C33: in the sampling loop, every model turn with k >= 1 function calls is
\* directly followed by a single user turn of exactly k function responses,
\* one per call, with the same names in the same order; a model turn with
\* function calls is without its response turn only when the loop has ended
\* and the model is not called again.
C33_FunctionResponsesAnswerCalls ==
    gemMaxIter > 0 =>
        \A i \in 1..Len(gemContents) :
            (/\ gemContents[i].role = "model"
             /\ NamesOfKind(gemContents[i], "function_call") # <<>>) =>
                IF i < Len(gemContents)
                THEN /\ gemContents[i + 1].role = "user"
                     /\ Len(gemContents[i + 1].parts) =
                            Len(NamesOfKind(gemContents[i], "function_call"))
                     /\ NamesOfKind(gemContents[i + 1], "function_response")
                            = NamesOfKind(gemContents[i], "function_call")
                     /\ i + 2 <= Len(gemContents) =>
                            gemContents[i + 2].role = "model"
                ELSE gemPc = "done"

\* C33 witness: a model turn with two function calls, one of which failed,
\* has its turn of two responses and the loop calls the model again
C33_Witness ==
    /\ gemMaxIter > 0
    /\ gemPc = "loop"
    /\ gemIter >= 1
    /\ \E i \in 1..(Len(gemContents) - 1) :
          /\ gemContents[i].role = "model"
          /\ NamesOfKind(gemContents[i], "function_call")
                 = <<"navigate", "click_at">>
          /\ gemContents[i + 1].parts[2].response = "error"

(***************************************************************************)
(* Claims about KernelBrowserSession (SpecKs)                              *)
(***************************************************************************)
\* the with statement has been left after a browser was created
KsLeft == ksPc \in {"exited", "read"}

\* leaving the context deleted the browser exactly once, on every path
DeletedExactlyOnce ==
    /\ KsLeft => ksDeletes = 1
    /\ ksDeletes <= 1
    /\ ksDeletes = 1 => ksSession

\* C34: once a browser was created on entry, leaving the context deletes
\* that browser session exactly once on every path, including when the body
\* raised and when stopping or polling the replay raises; after exit the
\* kernel property raises instead of returning a client.
C34_DeletedOnceAndKernelGone ==
    /\ DeletedExactlyOnce
    /\ ksPc = "read" => ksRead = "raises"

(***************************************************************************)
(* Claims about the entry points that create a browser (SpecEp)            *)
(***************************************************************************)
\* the entry point has been left
EpLeft == epPc \in {"returned", "raised"}

\* C35: every entry point that creates a browser session itself deletes it
\* on every exit path: the browser created by run-rollout and by run_agent
\* is deleted exactly once whether the agent run returns, fails or raises.
C35_CreatedBrowserDeletedOnce ==
    /\ (EpLeft /\ epCreated) => epDeletes = 1
    /\ epDeletes <= 1
    /\ epDeletes = 1 => epCreated

(***************************************************************************)
(* Claims about the playwright connection of the Yutori loop (SpecYl)      *)
(***************************************************************************)
\* C36: in playwright mode, once the playwright tool is connected,
\* disconnect is called exactly once on every exit path of the loop (stop
\* action, no actions, iteration ceiling, model API error, failure of the
\* initial screenshot), and never in computer_use mode.
C36_DisconnectedOnceOnEveryExit ==
    /\ ylDisconnects <= 1
    /\ (ylConnected /\ ylPc \in {"returned", "raised"}) => ylDisconnects = 1
    /\ ylDisconnects = 1 => (ylConnected /\ ylPc \in {"returned", "raised"})
    /\ ylMode = "computer_use" => ylDisconnects = 0

\* C36 witness: a connected loop left through the failure of the initial
\* screenshot and disconnected once
C36_Witness ==
    /\ ylMode = "playwright"
    /\ ylConnected
    /\ ylExit = "screenshot"
    /\ ylPc = "raised"
    /\ ylDisconnects = 1

(***************************************************************************)
(* Claims about a click with a modifier key (SpecMk)                       *)
(***************************************************************************)
\* how often an event is in the trace
CountInTrace(e) == Cardinality({i \in 1..Len(mkTrace) : mkTrace[i] = e})

\* the first place of an event in the trace, 0 when it is not there
PlaceInTrace(e) ==
    IF CountInTrace(e) = 0 THEN 0
    ELSE CHOOSE i \in 1..Len(mkTrace) :
             mkTrace[i] = e /\ \A j \in 1..(i - 1) : mkTrace[j] # e

\* C37: a click with a modifier key issues its remote calls in the order
\* key-down, click, key-up, and every key-down is matched by a key-up on
\* every path, including when the click call raises: no modifier key stays
\* pressed after the action returns or fails.
C37_ModifierKeyReleasedOnEveryPath ==
    /\ CountInTrace("click_mouse") = 1 /\ mkKey =>
           /\ CountInTrace("key_down") = 1
           /\ PlaceInTrace("key_down") < PlaceInTrace("click_mouse")
    /\ CountInTrace("key_up") = 1 =>
           PlaceInTrace("click_mouse") < PlaceInTrace("key_up")
           /\ PlaceInTrace("click_mouse") > 0
    /\ mkPc \in {"returned", "raised"} =>
           CountInTrace("key_down") = CountInTrace("key_up")

(***************************************************************************)
(* Claims about _resolve_target_coords (SpecRs)                            *)
(***************************************************************************)
\* the places of the trace where moondream.point was called
PointPlaces ==
    {i \in 1..Len(rsTrace) : rsTrace[i] \in {"point_found", "point_none"}}

\* C38: with explicit x and y the vision service is never called; otherwise
\* moondream.point is called at most max(1, retries) times, the call that
\* finds a point is the last one, retry_delay_ms is waited only between
\* attempts (never after the last), every attempt after the first works on
\* a freshly captured screenshot, and None is returned when every attempt
\* finds nothing.
C38_ResolveRetriesOnFreshScreenshots ==
    /\ rsXY => (rsTrace = <<>> /\ rsResult \in {"none", "coords"})
    /\ Cardinality(PointPlaces) <= (IF rsRetries > 1 THEN rsRetries ELSE 1)
    /\ \A i \in 1..Len(rsTrace) :
          /\ rsTrace[i] = "point_found" =>
                (i = Len(rsTrace) /\ rsResult = "coords")
          /\ rsTrace[i] = "sleep" =>
                /\ rsTrace[i - 1] = "point_none"
                /\ rsPc = "returned" => i < Len(rsTrace)
                /\ i < Len(rsTrace) => rsTrace[i + 1] = "capture"
          /\ (i \in PointPlaces /\ \E j \in PointPlaces : j < i) =>
                (rsTrace[i - 1] = "capture" /\ rsTrace[i - 2] = "sleep")
          /\ i \in PointPlaces => rsTrace[i - 1] \in {"capture", "reuse"}
    /\ (rsPc = "returned" /\ ~rsXY /\ rsTarget
        /\ \A i \in PointPlaces : rsTrace[i] = "point_none") =>
           /\ rsResult = "None"
           /\ Cardinality(PointPlaces) = (IF rsRetries > 1 THEN rsRetries ELSE 1)

\* C38 witness: the first attempt on the screenshot at hand found nothing,
\* the second, after the delay and on a new capture, found the point
C38_Witness ==
    /\ rsPc = "returned"
    /\ rsResult = "coords"
    /\ rsTrace = <<"reuse", "point_none", "sleep", "capture", "point_found">>

(***************************************************************************)
(* Claims about KernelComputer.batch_actions (SpecBa)                      *)
(***************************************************************************)
\* the action types the batch tool knows
KnownCuaTypes ==
    {"click", "double_click", "type", "keypress", "scroll", "move", "drag",
     "wait"}

\* the Kernel action types an action of the given type may be sent as
SentAs(type) ==
    CASE type = "click" -> {"click_mouse", "press_key", "scroll"}
      [] type = "double_click" -> {"click_mouse"}
      [] type = "type" -> {"type_text"}
      [] type = "keypress" -> {"press_key"}
      [] type = "scroll" -> {"scroll"}
      [] type = "move" -> {"move_mouse"}
      [] type = "drag" -> {"drag_mouse"}
      [] type = "wait" -> {"sleep"}
      [] OTHER -> {}

UnknownInBatch ==
    \E i \in 1..Len(baActions) : baActions[i].type \notin KnownCuaTypes

BaLeft == baPc \in {"returned", "raised"}

\* C39: batch_actions is all-or-nothing on translation: with an action of
\* unknown type in the batch a ValueError is raised and nothing is given to
\* the remote batch call; otherwise the whole batch goes out in one remote
\* call, every action at its original place.
C39_BatchAllOrNothing ==
    /\ Len(baCalls) <= 1
    /\ UnknownInBatch =>
          /\ baCalls = <<>>
          /\ BaLeft => (baPc = "raised" /\ baError = "ValueError")
    /\ (~UnknownInBatch /\ BaLeft) =>
          (Len(baCalls) = 1 /\ baError # "ValueError")
    /\ \A c \in 1..Len(baCalls) :
          /\ Len(baCalls[c]) = Len(baActions)
          /\ \A i \in 1..Len(baActions) :
                baCalls[c][i].type \in SentAs(baActions[i].type)

\* C39 witness: the first action was translated, the second has an unknown
\* type, the call raised ValueError and nothing was sent
C39_Witness ==
    /\ Len(baActions) = 2
    /\ baActions[1].type = "type"
    /\ baActions[2].type = "screenshot"
    /\ Len(baTranslated) = 1
    /\ baPc = "raised"
    /\ baError = "ValueError"
    /\ baCalls = <<>>

(***************************************************************************)
(* Claims about the browser heartbeat (SpecHb)                             *)
(***************************************************************************)
\* the heartbeat threads that are alive
AliveHeartbeats == {h \in Heartbeats : IsAlive(hbPc[h])}

\* C40: an adapter has at most one heartbeat thread at any time, and after
\* stop_heartbeat_sync has returned no further heartbeat command is sent.
C40_OneThreadAndSilentAfterStop ==
    /\ Cardinality(AliveHeartbeats) <= 1
    /\ ~hbLate

\* C40, first half alone: at most one heartbeat thread is alive
C40_AtMostOneThread == Cardinality(AliveHeartbeats) <= 1

\* C40, second half alone: no command after stop_heartbeat_sync returned
C40_SilentAfterStop == ~hbLate

\* what does hold: start is idempotent while _heartbeat is set, so at most
\* one heartbeat is not stopped
C40_StartIdempotent ==
    Cardinality({h \in AliveHeartbeats : ~hbStopped[h]}) <= 1

====
